---- MODULE Spec2Model ----
(***************************************************************************)
(* Model of the PICKL test-automation boilerplate.                         *)
(*                                                                         *)
(* Part 1: VerboseFormatter (test/support/verbose-formatter.ts), the       *)
(* execution event aggregator: nine numeric fields, one 'envelope'         *)
(* listener that dispatches to five private handlers, and this.log output. *)
(*                                                                         *)
(* Two specifications drive the formatter:                                 *)
(*   Spec     delivers any envelope at any time (at most MaxEvents).       *)
(*   SpecRun  delivers the envelopes of a Cucumber run of the cases A and  *)
(*            B in protocol order, the two cases possibly interleaved.     *)
(*                                                                         *)
(* Part 2: the pull-request comment generator (unnamed/part_001), the      *)
(* result summarizer: parseTestResults folds the Cucumber JSON report into *)
(* a summary, generateComment renders it.                                  *)
(*   SpecSum       writes a report document, then generates the comment.   *)
(*   SpecDuration  lets time elapse, then formats the duration.            *)
(*                                                                         *)
(* Part 3: the test runner script (scripts/run-test.ts).                   *)
(*   SpecRunTest   passes arguments and TAGS, then launches the command.   *)
(*                                                                         *)
(* Part 4: the step helpers getPage and getPageObject                      *)
(* (test/support/verbose-formatter.ts, second half).                       *)
(*   SpecPage      hooks set and clear the World's page, steps call the    *)
(*                 helpers.                                                *)
(***************************************************************************)
EXTENDS Integers, Sequences, FiniteSets, TLC

VARIABLES
    passedCount, failedCount, skippedCount, totalSteps, startTime,
    scenariosPassed, scenariosFailed, scenariosSkipped, totalScenarios,
    now,          \* the last reading of the wall clock (Date.now())
    emitted,      \* the this.log calls of the last envelope, one token list per call
    terminal,     \* the terminal's current line and cursor column
    last,         \* the last envelope delivered (and the worst status looked up)
    nEvents,      \* number of envelopes delivered (Spec)
    unrecognized, \* history: resolved testStepFinished with a status outside the three buckets
    shadow,         \* history: the fields of a second formatter that is fed the same envelopes
                    \* except those whose identifiers do not resolve
    shadowEmitted,  \* history: what that formatter logged for the last envelope
    shadowTerminal, \* history: the terminal line that formatter's output leaves
    finalLines,     \* history: per icon, the number of final step lines logged so far
    processed,      \* history: the resolved testStepFinished and testCaseFinished envelopes
                    \* handled so far, counted by class of status
    runStartedAt,   \* history: the clock reading at the last testRunStarted, 0 before the first
    canon,        \* history: k when the envelopes so far are the first k of CanonicalRun, else -1
    runPhase,     \* SpecRun: "idle", "running", "finished"
    progress,     \* SpecRun: per case, its position in the run
    overlapped,   \* SpecRun history: two cases were open at the same time
    report,       \* SpecSum: the parsed content of test-results/cucumber-report.json
    results,      \* SpecSum: << >>, or the one TestResults parseTestResults returned
    comment,      \* SpecSum: << >>, or the one comment generateComment rendered
    reportExists, \* SpecSum: test-results/cucumber-report.json exists
    prComment,    \* SpecSum: << >>, or the one content of test-results/pr-comment.md
    writes,       \* SpecSum: the number of writeFile calls of the run
    exitCode,     \* SpecSum: << >> until the script has ended, then its one exit status
    replaced,     \* SpecSum history: what pr-comment.md held when the script started
    nanoseconds,  \* SpecDuration: a duration, as whole seconds s and nanoseconds n below one second
    lapses,       \* SpecDuration: the number of lapses the duration is the sum of
    formatted,    \* SpecDuration: << >>, or the tokens formatDuration returned
    argv,         \* SpecRunTest: process.argv.slice(2), each argument a sequence of tokens
    envTags,      \* SpecRunTest: << >>, or the one value of process.env.TAGS
    command,      \* SpecRunTest: << >>, or the one command line passed to exec
    runTestPc,    \* SpecRunTest: "args", "launched", "done"
    runTestExit,  \* SpecRunTest: << >>, or the one status process.exit was called with
    world,        \* SpecPage: the Cucumber World, its page << >> while not initialized
    constructed,  \* SpecPage: the calls of page-object constructors so far, in order
    called,       \* SpecPage: << >>, or the last call of a helper and what it was given
    outcome       \* SpecPage: << >>, or what that call returned or threw

fields == <<passedCount, failedCount, skippedCount, totalSteps, startTime,
            scenariosPassed, scenariosFailed, scenariosSkipped, totalScenarios>>
runVars == <<runPhase, progress, overlapped>>
histVars == <<unrecognized, canon, shadow, shadowEmitted, shadowTerminal, finalLines,
              processed, runStartedAt>>
sumVars == <<report, results, comment, reportExists, prComment, writes, exitCode, replaced>>
durVars == <<nanoseconds, lapses, formatted>>
fmtVars == <<fields, now, emitted, terminal, last, nEvents, histVars, runVars>>
cliVars == <<argv, envTags, command, runTestPc, runTestExit>>
pageVars == <<world, constructed, called, outcome>>
vars == <<fmtVars, sumVars, durVars, cliVars, pageVars>>

----------------------------------------------------------------------------
(* Bounds *)

\* Spec delivers at most this many envelopes.
MaxEvents == 3

----------------------------------------------------------------------------
(* Data: statuses, identifiers, the event data collector's content *)

\* messages.TestStepResultStatus
Statuses == {"UNKNOWN", "PASSED", "SKIPPED", "PENDING", "UNDEFINED", "AMBIGUOUS", "FAILED"}

NoStatus == "NONE"

\* Output tokens.  A this.log call is a sequence of tokens.
LF == "<LF>"
CR == "<CR>"
EL == "<ESC[K>"
PassIcon == "U+2705"
FailIcon == "U+274C"
SkipIcon == "U+2298"
WarnIcon == "U+26A0"
Hourglass == "U+23F3"
RunningLabel == "U+25B6  Running: "

\* The test case attempts the event data collector knows.  A test step
\* without pickleStepId (a hook) carries "" there; pickle step "pbe" has
\* an empty text; test step "m" names a pickle step the pickle lacks.
Attempts ==
    [ A |-> [ pickle |-> [ name  |-> "Successful login",
                           steps |-> << [id |-> "pa1", text |-> "I am on the login page"] >> ],
              testSteps |-> << [id |-> "1", pickleStepId |-> "pa1"] >> ],
      B |-> [ pickle |-> [ name  |-> "Locked out",
                           steps |-> << [id |-> "pb1", text |-> "I should see an error"],
                                        [id |-> "pbe", text |-> ""] >> ],
              testSteps |-> << [id |-> "h", pickleStepId |-> ""],
                               [id |-> "1", pickleStepId |-> "pb1"],
                               [id |-> "m", pickleStepId |-> "gone"],
                               [id |-> "e", pickleStepId |-> "pbe"] >> ] ]

KnownCases == DOMAIN Attempts
CaseIds == KnownCases \cup {"X"}

\* (testCaseStartedId, testStepId) pairs an envelope may carry.
StepRefs == { <<"A", "1">>, <<"B", "h">>, <<"B", "1">>, <<"B", "m">>, <<"B", "e">>,
              <<"B", "u">>, <<"X", "1">> }

\* eventDataCollector.getTestCaseAttempt(id): <<attempt>> or <<>> (nothing).
getTestCaseAttempt(id) ==
    IF id \in KnownCases THEN << Attempts[id] >> ELSE << >>

\* Array.prototype.find(s => s.id === id): <<element>> or <<>> (undefined).
RECURSIVE find(_, _)
find(seq, id) ==
    IF seq = << >> THEN << >>
    ELSE IF Head(seq).id = id THEN << Head(seq) >>
    ELSE find(Tail(seq), id)

----------------------------------------------------------------------------
(* Conversions *)

DigitChars == << "0", "1", "2", "3", "4", "5", "6", "7", "8", "9" >>

\* `${n}` of a non-negative integer: its decimal digits.
RECURSIVE Num(_)
Num(n) ==
    IF n < 10 THEN << DigitChars[n + 1] >>
    ELSE Num(n \div 10) \o << DigitChars[(n % 10) + 1] >>

\* (ms / 1000).toFixed(3) of a non-negative integer of milliseconds.
toFixed3(ms) ==
    LET frac == ms % 1000
    IN  Num(ms \div 1000) \o << "." >>
        \o << DigitChars[(frac \div 100) + 1],
              DigitChars[((frac \div 10) % 10) + 1],
              DigitChars[(frac % 10) + 1] >>

RECURSIVE Flatten(_)
Flatten(calls) ==
    IF calls = << >> THEN << >> ELSE Head(calls) \o Flatten(Tail(calls))

----------------------------------------------------------------------------
(* The formatter's fields as one record, and the handlers as functions of it *)

Self ==
    [ passedCount |-> passedCount, failedCount |-> failedCount,
      skippedCount |-> skippedCount, totalSteps |-> totalSteps,
      startTime |-> startTime,
      scenariosPassed |-> scenariosPassed, scenariosFailed |-> scenariosFailed,
      scenariosSkipped |-> scenariosSkipped, totalScenarios |-> totalScenarios ]

Result(self, log) == [ self |-> self, log |-> log ]

\* Mutant of logTestCaseStarted: the lookup result is not tested before logging.
logTestCaseStarted_NoGuard(self, testCaseStarted) ==
    LET testCase == getTestCaseAttempt(testCaseStarted.caseId)
    IN  IF testCase # << >>
        THEN Result(self, << << LF, RunningLabel, testCase[1].pickle.name, LF >> >>)
        ELSE Result(self, << << LF, RunningLabel, "undefined", LF >> >>)

\* logTestCaseStarted
logTestCaseStarted(self, testCaseStarted) ==
    LET testCase == getTestCaseAttempt(testCaseStarted.caseId)
    IN  IF testCase # << >>
        THEN Result(self, << << LF, RunningLabel, testCase[1].pickle.name, LF >> >>)
        ELSE Result(self, << >>)

\* Mutant of trackScenarioResult: the total is counted only inside the three branches.
trackScenarioResult_TotalInBranches(self, testCaseFinished, worst) ==
    LET testCase == getTestCaseAttempt(testCaseFinished.caseId)
    IN  IF testCase # << >>
        THEN IF worst = "PASSED"
             THEN [self EXCEPT !.totalScenarios = @ + 1, !.scenariosPassed = @ + 1]
             ELSE IF worst = "FAILED"
             THEN [self EXCEPT !.totalScenarios = @ + 1, !.scenariosFailed = @ + 1]
             ELSE IF worst = "SKIPPED"
             THEN [self EXCEPT !.totalScenarios = @ + 1, !.scenariosSkipped = @ + 1]
             ELSE self
        ELSE self

\* Mutant of trackScenarioResult: the total is counted before the lookup is tested.
trackScenarioResult_CountFirst(self, testCaseFinished, worst) ==
    LET testCase == getTestCaseAttempt(testCaseFinished.caseId)
        s1 == [self EXCEPT !.totalScenarios = @ + 1]
    IN  IF testCase # << >>
        THEN IF worst = "PASSED" THEN [s1 EXCEPT !.scenariosPassed = @ + 1]
             ELSE IF worst = "FAILED" THEN [s1 EXCEPT !.scenariosFailed = @ + 1]
             ELSE IF worst = "SKIPPED" THEN [s1 EXCEPT !.scenariosSkipped = @ + 1]
             ELSE s1
        ELSE s1

\* Mutant of trackScenarioResult: a status that is neither passed nor failed
\* is counted as skipped.
trackScenarioResult_OtherAsSkipped(self, testCaseFinished, worst) ==
    LET testCase == getTestCaseAttempt(testCaseFinished.caseId)
    IN  IF testCase # << >>
        THEN IF worst = "PASSED"
             THEN [self EXCEPT !.totalScenarios = @ + 1, !.scenariosPassed = @ + 1]
             ELSE IF worst = "FAILED"
             THEN [self EXCEPT !.totalScenarios = @ + 1, !.scenariosFailed = @ + 1]
             ELSE [self EXCEPT !.totalScenarios = @ + 1, !.scenariosSkipped = @ + 1]
        ELSE self

\* trackScenarioResult; worst is testCase.worstTestStepResult.status
trackScenarioResult(self, testCaseFinished, worst) ==
    LET testCase == getTestCaseAttempt(testCaseFinished.caseId)
    IN  IF testCase # << >>
        THEN LET s1 == [self EXCEPT !.totalScenarios = @ + 1]
             IN  IF worst = "PASSED" THEN [s1 EXCEPT !.scenariosPassed = @ + 1]
                 ELSE IF worst = "FAILED" THEN [s1 EXCEPT !.scenariosFailed = @ + 1]
                 ELSE IF worst = "SKIPPED" THEN [s1 EXCEPT !.scenariosSkipped = @ + 1]
                 ELSE s1
        ELSE self

\* Mutant of gherkinStepText: a found pickle step resolves even with an empty text.
gherkinStepText_EmptyTextResolves(testCaseStartedId, testStepId) ==
    LET testCase == getTestCaseAttempt(testCaseStartedId)
    IN  IF testCase = << >> THEN << >>
        ELSE LET testStep == find(testCase[1].testSteps, testStepId)
             IN  IF testStep = << >> \/ testStep[1].pickleStepId = "" THEN << >>
                 ELSE LET gherkinStep == find(testCase[1].pickle.steps, testStep[1].pickleStepId)
                      IN  IF gherkinStep = << >> THEN << >>
                          ELSE << gherkinStep[1].text >>

\* The step text lookup that logTestStepStarted and logTestStepFinished share:
\* <<text>> when every stage resolves and the text is not empty, else <<>>.
gherkinStepText(testCaseStartedId, testStepId) ==
    LET testCase == getTestCaseAttempt(testCaseStartedId)
    IN  IF testCase = << >> THEN << >>
        ELSE LET testStep == find(testCase[1].testSteps, testStepId)
             IN  IF testStep = << >> \/ testStep[1].pickleStepId = "" THEN << >>
                 ELSE LET gherkinStep == find(testCase[1].pickle.steps, testStep[1].pickleStepId)
                      IN  IF gherkinStep = << >> \/ gherkinStep[1].text = "" THEN << >>
                          ELSE << gherkinStep[1].text >>

\* Mutant of logTestStepStarted: the pending marker ends with a line break.
logTestStepStarted_WithLineBreak(self, testStepStarted) ==
    LET text == gherkinStepText(testStepStarted.caseId, testStepStarted.stepId)
    IN  IF text # << >>
        THEN Result(self, << << "  ", Hourglass, " ", text[1], LF >> >>)
        ELSE Result(self, << >>)

\* logTestStepStarted
logTestStepStarted(self, testStepStarted) ==
    LET text == gherkinStepText(testStepStarted.caseId, testStepStarted.stepId)
    IN  IF text # << >>
        THEN Result(self, << << "  ", Hourglass, " ", text[1] >> >>)
        ELSE Result(self, << >>)

\* Mutant of getStatusIcon: SKIPPED falls through to the warning icon.
getStatusIcon_NoSkipIcon(status) ==
    IF status = "PASSED" THEN PassIcon
    ELSE IF status = "FAILED" THEN FailIcon
    ELSE WarnIcon

\* getStatusIcon
getStatusIcon(status) ==
    IF status = "PASSED" THEN PassIcon
    ELSE IF status = "FAILED" THEN FailIcon
    ELSE IF status = "SKIPPED" THEN SkipIcon
    ELSE WarnIcon

\* Mutant of updateStepCounts: the status is compared with the lower-case
\* names of the JSON report instead of the enum's values.
updateStepCounts_LowerCase(self, status) ==
    LET s1 == [self EXCEPT !.totalSteps = @ + 1]
    IN  IF status = "passed" THEN [s1 EXCEPT !.passedCount = @ + 1]
        ELSE IF status = "failed" THEN [s1 EXCEPT !.failedCount = @ + 1]
        ELSE IF status = "skipped" THEN [s1 EXCEPT !.skippedCount = @ + 1]
        ELSE s1

\* Mutant of updateStepCounts: the total is counted only inside the three branches.
updateStepCounts_TotalInBranches(self, status) ==
    IF status = "PASSED" THEN [self EXCEPT !.totalSteps = @ + 1, !.passedCount = @ + 1]
    ELSE IF status = "FAILED" THEN [self EXCEPT !.totalSteps = @ + 1, !.failedCount = @ + 1]
    ELSE IF status = "SKIPPED" THEN [self EXCEPT !.totalSteps = @ + 1, !.skippedCount = @ + 1]
    ELSE self

\* updateStepCounts
updateStepCounts(self, status) ==
    LET s1 == [self EXCEPT !.totalSteps = @ + 1]
    IN  IF status = "PASSED" THEN [s1 EXCEPT !.passedCount = @ + 1]
        ELSE IF status = "FAILED" THEN [s1 EXCEPT !.failedCount = @ + 1]
        ELSE IF status = "SKIPPED" THEN [s1 EXCEPT !.skippedCount = @ + 1]
        ELSE s1

\* Mutant of logTestStepFinished: the final line lacks the carriage return.
logTestStepFinished_NoCarriageReturn(self, testStepFinished) ==
    LET text == gherkinStepText(testStepFinished.caseId, testStepFinished.stepId)
    IN  IF text = << >> THEN Result(self, << >>)
        ELSE LET status == testStepFinished.status
                 icon == getStatusIcon(status)
             IN  Result(updateStepCounts(self, status),
                        << << EL, "  ", icon, " ", text[1], LF >> >>)

\* Mutant of logTestStepFinished: the step is counted before its text is resolved.
logTestStepFinished_CountBeforeResolve(self, testStepFinished) ==
    LET text == gherkinStepText(testStepFinished.caseId, testStepFinished.stepId)
        status == testStepFinished.status
        icon == getStatusIcon(status)
    IN  IF text = << >> THEN Result(updateStepCounts(self, status), << >>)
        ELSE Result(updateStepCounts(self, status),
                    << << CR, EL, "  ", icon, " ", text[1], LF >> >>)

\* logTestStepFinished
logTestStepFinished(self, testStepFinished) ==
    LET text == gherkinStepText(testStepFinished.caseId, testStepFinished.stepId)
    IN  IF text = << >> THEN Result(self, << >>)
        ELSE LET status == testStepFinished.status
                 icon == getStatusIcon(status)
             IN  Result(updateStepCounts(self, status),
                        << << CR, EL, "  ", icon, " ", text[1], LF >> >>)

\* Mutant of optionalClause: the clause is logged for a count of 0 too.
optionalClause_AlwaysPresent(count, label) ==
    IF count >= 0 THEN << << ", " >> \o Num(count) \o << label >> >> ELSE << >>

\* The optional ", <n> failed" / ", <n> skipped" this.log call.
optionalClause(count, label) ==
    IF count > 0 THEN << << ", " >> \o Num(count) \o << label >> >> ELSE << >>

\* logTestRunFinished; clock is the value Date.now() returns
logTestRunFinished(self, clock) ==
    LET duration == toFixed3(clock - self.startTime)
    IN  Result(self,
            << << LF, "Test Execution Summary:" >> >>
         \o << << LF >> \o Num(self.totalScenarios) \o << " scenarios (" >>
                  \o Num(self.scenariosPassed) \o << " passed" >> >>
         \o optionalClause(self.scenariosFailed, " failed")
         \o optionalClause(self.scenariosSkipped, " skipped")
         \o << << ")", LF >> >>
         \o << Num(self.totalSteps) \o << " steps (" >>
                  \o Num(self.passedCount) \o << " passed" >> >>
         \o optionalClause(self.failedCount, " failed")
         \o optionalClause(self.skippedCount, " skipped")
         \o << << ")", LF >> \o duration \o << "s", LF >> >>)

\* An envelope carries exactly one member; kind names it.
Envelope(kind, caseId, stepId, status) ==
    [ kind |-> kind, caseId |-> caseId, stepId |-> stepId, status |-> status ]

\* What a handler did, after what the handlers before it did.
AndThen(before, after) == Result(after.self, before.log \o after.log)

\* if (envelope.testRunStarted) this.startTime = Date.now()
ifTestRunStarted(before, envelope, clock) ==
    IF envelope.kind = "testRunStarted"
    THEN Result([ before.self EXCEPT !.startTime = clock ], before.log)
    ELSE before

\* The same with the eight count fields reset.
ifTestRunStarted_Reset(before, envelope, clock) ==
    IF envelope.kind = "testRunStarted"
    THEN Result([ passedCount |-> 0, failedCount |-> 0, skippedCount |-> 0,
                  totalSteps |-> 0, startTime |-> clock,
                  scenariosPassed |-> 0, scenariosFailed |-> 0,
                  scenariosSkipped |-> 0, totalScenarios |-> 0 ], before.log)
    ELSE before

\* if (envelope.testCaseStarted) this.logTestCaseStarted(...)
ifTestCaseStarted(before, envelope) ==
    IF envelope.kind = "testCaseStarted"
    THEN AndThen(before, logTestCaseStarted(before.self, envelope))
    ELSE before

\* if (envelope.testCaseFinished) this.trackScenarioResult(...)
ifTestCaseFinished(before, envelope, worst) ==
    IF envelope.kind = "testCaseFinished"
    THEN Result(trackScenarioResult(before.self, envelope, worst), before.log)
    ELSE before

\* if (envelope.testStepStarted) this.logTestStepStarted(...)
ifTestStepStarted(before, envelope) ==
    IF envelope.kind = "testStepStarted"
    THEN AndThen(before, logTestStepStarted(before.self, envelope))
    ELSE before

\* if (envelope.testStepFinished) this.logTestStepFinished(...)
ifTestStepFinished(before, envelope) ==
    IF envelope.kind = "testStepFinished"
    THEN AndThen(before, logTestStepFinished(before.self, envelope))
    ELSE before

\* if (envelope.testRunFinished) this.logTestRunFinished()
ifTestRunFinished(before, envelope, clock) ==
    IF envelope.kind = "testRunFinished"
    THEN AndThen(before, logTestRunFinished(before.self, clock))
    ELSE before

\* Mutant of onEnvelope: testRunStarted also resets the eight count fields.
onEnvelope_ResetOnRunStarted(self, envelope, clock, worst) ==
    ifTestRunFinished(
        ifTestStepFinished(
            ifTestStepStarted(
                ifTestCaseFinished(
                    ifTestCaseStarted(
                        ifTestRunStarted_Reset(Result(self, << >>), envelope, clock),
                        envelope),
                    envelope, worst),
                envelope),
            envelope),
        envelope, clock)

\* The 'envelope' listener of the constructor: six ifs in this order.
onEnvelope(self, envelope, clock, worst) ==
    ifTestRunFinished(
        ifTestStepFinished(
            ifTestStepStarted(
                ifTestCaseFinished(
                    ifTestCaseStarted(
                        ifTestRunStarted(Result(self, << >>), envelope, clock),
                        envelope),
                    envelope, worst),
                envelope),
            envelope),
        envelope, clock)

----------------------------------------------------------------------------
(* The terminal the log stream is written to *)

\* One token written at the cursor: LF starts a new empty line, CR moves the
\* cursor to column 0, EL clears from the cursor to the end of the line, any
\* other token is printed at the cursor and overwrites what is there.
writeToken(term, tok) ==
    IF tok = LF THEN [ text |-> << >>, col |-> 0 ]
    ELSE IF tok = CR THEN [ term EXCEPT !.col = 0 ]
    ELSE IF tok = EL THEN [ term EXCEPT !.text = SubSeq(term.text, 1, term.col) ]
    ELSE [ text |-> SubSeq(term.text, 1, term.col) \o << tok >>
                    \o SubSeq(term.text, term.col + 2, Len(term.text)),
           col  |-> term.col + 1 ]

RECURSIVE write(_, _)
write(term, toks) ==
    IF toks = << >> THEN term ELSE write(writeToken(term, Head(toks)), Tail(toks))

----------------------------------------------------------------------------
(* State machine *)

\* The statuses with a counter of their own, and one class for all the others.
StatusClasses == {"PASSED", "FAILED", "SKIPPED", "OTHER"}

StatusClass(status) == IF status \in {"PASSED", "FAILED", "SKIPPED"} THEN status ELSE "OTHER"

\* The icons getStatusIcon can return.
Icons == {"U+2705", "U+274C", "U+2298", "U+26A0"}

Init ==
    /\ passedCount = 0 /\ failedCount = 0 /\ skippedCount = 0 /\ totalSteps = 0
    /\ startTime = 0
    /\ scenariosPassed = 0 /\ scenariosFailed = 0 /\ scenariosSkipped = 0
    /\ totalScenarios = 0
    /\ now = 0
    /\ emitted = << >>
    /\ terminal = [ text |-> << >>, col |-> 0 ]
    /\ last = [ kind |-> "none", caseId |-> "", stepId |-> "", status |-> NoStatus,
                worst |-> NoStatus ]
    /\ nEvents = 0
    /\ unrecognized = 0
    /\ canon = 0
    /\ shadow = [ passedCount |-> 0, failedCount |-> 0, skippedCount |-> 0, totalSteps |-> 0,
                  startTime |-> 0, scenariosPassed |-> 0, scenariosFailed |-> 0,
                  scenariosSkipped |-> 0, totalScenarios |-> 0 ]
    /\ shadowEmitted = << >>
    /\ shadowTerminal = [ text |-> << >>, col |-> 0 ]
    /\ finalLines = [ i \in Icons |-> 0 ]
    /\ processed = [ step |-> [ c \in StatusClasses |-> 0 ], case |-> [ c \in StatusClasses |-> 0 ] ]
    /\ runStartedAt = 0
    /\ runPhase = "idle"
    /\ progress = [ c \in KnownCases |-> [ phase |-> "pending", at |-> 1, started |-> FALSE ] ]
    /\ overlapped = FALSE
    /\ report = << >>
    /\ results = << >>
    /\ comment = << >>
    /\ reportExists = FALSE
    /\ prComment = << >>
    /\ writes = 0
    /\ exitCode = << >>
    /\ replaced = << >>
    /\ nanoseconds = [ s |-> 0, n |-> 0 ]
    /\ lapses = 0
    /\ formatted = << >>
    /\ argv = << >>
    /\ envTags = << >>
    /\ command = << >>
    /\ runTestPc = "args"
    /\ runTestExit = << >>
    /\ world = [ page |-> << >> ]
    /\ constructed = << >>
    /\ called = << >>
    /\ outcome = << >>

\* What the clock may advance by between two readings (milliseconds).
ClockAdvance == {0, 7, 1250}

Commit(self) ==
    /\ passedCount' = self.passedCount
    /\ failedCount' = self.failedCount
    /\ skippedCount' = self.skippedCount
    /\ totalSteps' = self.totalSteps
    /\ startTime' = self.startTime
    /\ scenariosPassed' = self.scenariosPassed
    /\ scenariosFailed' = self.scenariosFailed
    /\ scenariosSkipped' = self.scenariosSkipped
    /\ totalScenarios' = self.totalScenarios

\* The canonical event order of one passing scenario with one step.
CanonicalRun ==
    << [ kind |-> "testRunStarted", caseId |-> "", stepId |-> "", status |-> NoStatus, worst |-> NoStatus ],
       [ kind |-> "testCaseStarted", caseId |-> "A", stepId |-> "", status |-> NoStatus, worst |-> NoStatus ],
       [ kind |-> "testStepStarted", caseId |-> "A", stepId |-> "1", status |-> NoStatus, worst |-> NoStatus ],
       [ kind |-> "testStepFinished", caseId |-> "A", stepId |-> "1", status |-> "PASSED", worst |-> NoStatus ],
       [ kind |-> "testCaseFinished", caseId |-> "A", stepId |-> "", status |-> NoStatus, worst |-> "PASSED" ],
       [ kind |-> "testRunFinished", caseId |-> "", stepId |-> "", status |-> NoStatus, worst |-> NoStatus ] >>

\* The step references of the collector's data by what their lookup yields.
ResolvableSteps == { <<"A", "1">>, <<"B", "1">> }
UnresolvableSteps ==
    { <<"X", "1">>,     \* unknown case
      <<"B", "u">>,     \* unknown step
      <<"B", "h">>,     \* step with no pickle mapping (a hook)
      <<"B", "m">>,     \* pickle step id the pickle does not hold
      <<"B", "e">> }    \* empty text

\* The envelopes whose identifiers do not resolve.
DoesNotResolve(envelope) ==
    \/ /\ envelope.kind \in {"testCaseStarted", "testCaseFinished"}
       /\ envelope.caseId = "X"
    \/ /\ envelope.kind \in {"testStepStarted", "testStepFinished"}
       /\ << envelope.caseId, envelope.stepId >> \in UnresolvableSteps

\* A log call that is a final step line: CR, EL, two spaces, icon, space, text, LF.
IsFinalLine(call) ==
    /\ Len(call) = 7
    /\ call[1] = "<CR>" /\ call[2] = "<ESC[K>" /\ call[3] = "  "
    /\ call[4] \in Icons /\ call[5] = " " /\ call[7] = "<LF>"

FinalLinesWith(calls, icon) ==
    Cardinality({ i \in 1..Len(calls) : IsFinalLine(calls[i]) /\ calls[i][4] = icon })

\* The state after the listener returned r for an envelope, q being what the
\* formatter of the history did.
Handled(r, q, envelope, clock, worst) ==
    /\ Commit(r.self)
    /\ shadow' = q.self
    /\ shadowEmitted' = q.log
    /\ shadowTerminal' = write(shadowTerminal, Flatten(q.log))
    /\ finalLines' = [ i \in Icons |-> finalLines[i] + FinalLinesWith(r.log, i) ]
    /\ processed' =
          IF /\ envelope.kind = "testStepFinished"
             /\ << envelope.caseId, envelope.stepId >> \in ResolvableSteps
          THEN [ processed EXCEPT !.step[StatusClass(envelope.status)] = @ + 1 ]
          ELSE IF envelope.kind = "testCaseFinished" /\ envelope.caseId \in KnownCases
          THEN [ processed EXCEPT !.case[StatusClass(worst)] = @ + 1 ]
          ELSE processed
    /\ runStartedAt' = IF envelope.kind = "testRunStarted" THEN clock ELSE runStartedAt
    /\ emitted' = r.log
    /\ terminal' = write(terminal, Flatten(r.log))
    /\ now' = clock
    /\ last' = [ kind |-> envelope.kind, caseId |-> envelope.caseId,
                 stepId |-> envelope.stepId, status |-> envelope.status,
                 worst |-> worst ]
    /\ canon' =
          IF /\ canon >= 0 /\ canon < Len(CanonicalRun)
             /\ CanonicalRun[canon + 1] =
                    [ kind |-> envelope.kind, caseId |-> envelope.caseId,
                      stepId |-> envelope.stepId, status |-> envelope.status,
                      worst |-> worst ]
          THEN canon + 1 ELSE -1
    /\ unrecognized' =
          IF /\ envelope.kind = "testStepFinished"
             /\ gherkinStepText(envelope.caseId, envelope.stepId) # << >>
             /\ envelope.status \notin {"PASSED", "FAILED", "SKIPPED"}
          THEN unrecognized + 1 ELSE unrecognized
    /\ UNCHANGED << sumVars, durVars, cliVars, pageVars >>

\* The event broadcaster emits one envelope and the listener runs to completion.
Deliver(envelope, clock, worst) ==
    Handled(onEnvelope(Self, envelope, clock, worst),
            IF DoesNotResolve(envelope) THEN Result(shadow, << >>)
            ELSE onEnvelope(shadow, envelope, clock, worst),
            envelope, clock, worst)

\* The worst status the collector holds for a case (nothing for an unknown case).
WorstOf(caseId) == IF caseId \in KnownCases THEN Statuses ELSE {NoStatus}

Broadcast(envelope, clock, worst) ==
    /\ nEvents < MaxEvents
    /\ Deliver(envelope, clock, worst)
    /\ nEvents' = nEvents + 1
    /\ UNCHANGED runVars

TestRunStarted ==
    \E d \in ClockAdvance :
        Broadcast(Envelope("testRunStarted", "", "", NoStatus), now + d, NoStatus)

TestCaseStarted ==
    \E c \in CaseIds :
        Broadcast(Envelope("testCaseStarted", c, "", NoStatus), now, NoStatus)

TestCaseFinished ==
    \E c \in CaseIds : \E w \in WorstOf(c) :
        Broadcast(Envelope("testCaseFinished", c, "", NoStatus), now, w)

TestStepStarted ==
    \E ref \in StepRefs :
        Broadcast(Envelope("testStepStarted", ref[1], ref[2], NoStatus), now, NoStatus)

TestStepFinished ==
    \E ref \in StepRefs : \E st \in Statuses :
        Broadcast(Envelope("testStepFinished", ref[1], ref[2], st), now, NoStatus)

TestRunFinished ==
    \E d \in ClockAdvance :
        Broadcast(Envelope("testRunFinished", "", "", NoStatus), now + d, NoStatus)

\* Any other envelope (a pickle, a test case, an attachment, ...).
OtherEnvelope ==
    Broadcast(Envelope("other", "", "", NoStatus), now, NoStatus)

Next ==
    \/ TestRunStarted
    \/ TestCaseStarted
    \/ TestCaseFinished
    \/ TestStepStarted
    \/ TestStepFinished
    \/ TestRunFinished
    \/ OtherEnvelope

Spec == Init /\ [][Next]_vars

----------------------------------------------------------------------------
(* A Cucumber run: the envelopes in protocol order *)

OpenCases == { c \in KnownCases : progress[c].phase = "open" }

StepsOf(c) == Attempts[c].testSteps

InRun(envelope, clock, worst) ==
    /\ Deliver(envelope, clock, worst)
    /\ UNCHANGED nEvents

RunBegin ==
    /\ runPhase = "idle"
    /\ \E d \in ClockAdvance :
          InRun(Envelope("testRunStarted", "", "", NoStatus), now + d, NoStatus)
    /\ runPhase' = "running"
    /\ UNCHANGED <<progress, overlapped>>

CaseBegin(c) ==
    /\ runPhase = "running"
    /\ progress[c].phase = "pending"
    /\ InRun(Envelope("testCaseStarted", c, "", NoStatus), now, NoStatus)
    /\ progress' = [progress EXCEPT ![c].phase = "open"]
    /\ overlapped' = (overlapped \/ OpenCases # {})
    /\ UNCHANGED runPhase

StepBegin(c) ==
    /\ progress[c].phase = "open"
    /\ progress[c].at <= Len(StepsOf(c))
    /\ ~progress[c].started
    /\ InRun(Envelope("testStepStarted", c, StepsOf(c)[progress[c].at].id, NoStatus),
             now, NoStatus)
    /\ progress' = [progress EXCEPT ![c].started = TRUE]
    /\ UNCHANGED <<runPhase, overlapped>>

StepEnd(c) ==
    /\ progress[c].phase = "open"
    /\ progress[c].started
    /\ \E st \in Statuses :
          InRun(Envelope("testStepFinished", c, StepsOf(c)[progress[c].at].id, st),
                now, NoStatus)
    /\ progress' = [progress EXCEPT ![c].started = FALSE, ![c].at = @ + 1]
    /\ UNCHANGED <<runPhase, overlapped>>

CaseEnd(c) ==
    /\ progress[c].phase = "open"
    /\ progress[c].at > Len(StepsOf(c))
    /\ \E w \in Statuses :
          InRun(Envelope("testCaseFinished", c, "", NoStatus), now, w)
    /\ progress' = [progress EXCEPT ![c].phase = "done"]
    /\ UNCHANGED <<runPhase, overlapped>>

RunEnd ==
    /\ runPhase = "running"
    /\ OpenCases = {}
    /\ \E d \in ClockAdvance :
          InRun(Envelope("testRunFinished", "", "", NoStatus), now + d, NoStatus)
    /\ runPhase' = "finished"
    /\ UNCHANGED <<progress, overlapped>>

NextRun ==
    \/ RunBegin
    \/ \E c \in KnownCases : CaseBegin(c)
    \/ \E c \in KnownCases : StepBegin(c)
    \/ \E c \in KnownCases : StepEnd(c)
    \/ \E c \in KnownCases : CaseEnd(c)
    \/ RunEnd

SpecRun == Init /\ [][NextRun]_vars

----------------------------------------------------------------------------
(* Vocabulary of the properties *)

CountedStatuses == {"PASSED", "FAILED", "SKIPPED"}

TextOfStep(ref) ==
    IF ref = <<"A", "1">> THEN "I am on the login page" ELSE "I should see an error"

NameOfCase(c) == IF c = "A" THEN "Successful login" ELSE "Locked out"

IconOf(status) ==
    CASE status = "PASSED" -> "U+2705"
      [] status = "FAILED" -> "U+274C"
      [] status = "SKIPPED" -> "U+2298"
      [] OTHER -> "U+26A0"

LastRef == << last.caseId, last.stepId >>

stepCounters == << passedCount, failedCount, skippedCount, totalSteps >>
scenarioCounters == << scenariosPassed, scenariosFailed, scenariosSkipped, totalScenarios >>

----------------------------------------------------------------------------
(* C1 *)

\* C1: in every reachable state totalSteps = passedCount + failedCount +
\* skippedCount + U, U being the number of resolved StepFinished events so far
\* whose status is none of passed / failed / skipped.
C1_StepCountInvariant ==
    totalSteps = passedCount + failedCount + skippedCount + unrecognized

C1_Witness ==
    /\ last.kind = "testStepFinished"
    /\ last.status = "AMBIGUOUS"
    /\ unrecognized = 1
    /\ totalSteps = 3

----------------------------------------------------------------------------
(* C2 *)

\* C2: after exactly the canonical run (RunStarted, CaseStarted(A),
\* StepStarted(A,1), StepFinished(A,1,passed), CaseFinished(A, worst passed),
\* RunFinished) on a fresh formatter, totalScenarios, scenariosPassed,
\* totalSteps and passedCount are 1 and the four other counts are 0.
C2_CanonicalRunCounts ==
    canon = Len(CanonicalRun) =>
        /\ totalScenarios = 1 /\ scenariosPassed = 1
        /\ totalSteps = 1 /\ passedCount = 1
        /\ failedCount = 0 /\ skippedCount = 0
        /\ scenariosFailed = 0 /\ scenariosSkipped = 0

C2_Witness ==
    /\ canon = Len(CanonicalRun)
    /\ runPhase = "finished"
    /\ last.kind = "testRunFinished"

----------------------------------------------------------------------------
(* C3 *)

\* C3: a StepFinished envelope whose identifiers do not resolve to a step
\* text (unknown case, unknown step, no pickle mapping, empty text) logs
\* nothing and leaves all nine fields, the start time included, unchanged,
\* whatever its status.
C3_UnresolvedStepFinishedIsNoOp ==
    [][ (/\ last'.kind = "testStepFinished"
         /\ << last'.caseId, last'.stepId >> \in UnresolvableSteps)
        => (/\ UNCHANGED fields
            /\ emitted' = << >>) ]_vars

C3_Witness ==
    /\ last.kind = "testStepFinished"
    /\ LastRef = <<"B", "e">>
    /\ last.status = "FAILED"
    /\ emitted = << >>
    /\ totalSteps = 1 /\ passedCount = 1 /\ failedCount = 0
    /\ nEvents = 2

----------------------------------------------------------------------------
(* C4 *)

OnlyStepCounterOf(status) ==
    /\ passedCount' = passedCount + (IF status = "PASSED" THEN 1 ELSE 0)
    /\ failedCount' = failedCount + (IF status = "FAILED" THEN 1 ELSE 0)
    /\ skippedCount' = skippedCount + (IF status = "SKIPPED" THEN 1 ELSE 0)

\* C4: a StepFinished envelope that resolves to a step text adds 1 to
\* totalSteps and 1 to exactly the step counter of its status (to none for a
\* status other than passed / failed / skipped), and logs exactly one line:
\* CR, clear-to-end-of-line, two spaces, the icon of the status (the warning
\* icon for every other status), a space, the step text, a line break.
C4_ResolvedStepFinished ==
    [][ (/\ last'.kind = "testStepFinished"
         /\ << last'.caseId, last'.stepId >> \in ResolvableSteps)
        => (/\ totalSteps' = totalSteps + 1
            /\ OnlyStepCounterOf(last'.status)
            /\ emitted' = << << "<CR>", "<ESC[K>", "  ", IconOf(last'.status), " ",
                                TextOfStep(<< last'.caseId, last'.stepId >>), "<LF>" >> >>) ]_vars

C4_Witness ==
    /\ last.kind = "testStepFinished"
    /\ LastRef = <<"B", "1">>
    /\ last.status = "SKIPPED"
    /\ skippedCount = 1 /\ totalSteps = 2 /\ unrecognized = 1
    /\ emitted = << << "<CR>", "<ESC[K>", "  ", "U+2298", " ", "I should see an error", "<LF>" >> >>

----------------------------------------------------------------------------
(* C5 *)

\* C5: a CaseFinished envelope for a resolvable case adds 1 to totalScenarios
\* and 1 to exactly the scenario counter of the case's worst status when that
\* is passed, failed or skipped; for any other worst status totalScenarios
\* still grows by 1 and none of the three scenario counters changes.
C5_ResolvedCaseFinished ==
    [][ (/\ last'.kind = "testCaseFinished"
         /\ last'.caseId \in {"A", "B"})
        => (/\ totalScenarios' = totalScenarios + 1
            /\ scenariosPassed' = scenariosPassed + (IF last'.worst = "PASSED" THEN 1 ELSE 0)
            /\ scenariosFailed' = scenariosFailed + (IF last'.worst = "FAILED" THEN 1 ELSE 0)
            /\ scenariosSkipped' = scenariosSkipped + (IF last'.worst = "SKIPPED" THEN 1 ELSE 0)) ]_vars

C5_Witness ==
    /\ last.kind = "testCaseFinished"
    /\ last.caseId = "B"
    /\ last.worst = "UNDEFINED"
    /\ totalScenarios = 2
    /\ scenariosPassed = 0 /\ scenariosFailed = 1 /\ scenariosSkipped = 0

----------------------------------------------------------------------------
(* C6 *)

\* C6: a CaseStarted envelope whose identifier resolves logs exactly one
\* output, a line break followed by the 'Running: <scenario name>' line; one
\* whose identifier does not resolve logs nothing; neither changes a field.
C6_CaseStarted ==
    [][ last'.kind = "testCaseStarted"
        => (/\ UNCHANGED fields
            /\ emitted' = IF last'.caseId \in {"A", "B"}
                           THEN << << "<LF>", "U+25B6  Running: ",
                                      NameOfCase(last'.caseId), "<LF>" >> >>
                           ELSE << >>) ]_vars

C6_Witness ==
    /\ last.kind = "testCaseStarted"
    /\ last.caseId = "X"
    /\ emitted = << >>
    /\ terminal.text = << "  ", "U+23F3", " ", "I am on the login page" >>
    /\ totalScenarios = 1

----------------------------------------------------------------------------
(* C7 *)

PendingMarker(text) == << "  ", "U+23F3", " ", text >>

\* C7: a StepStarted envelope whose step resolves to a text logs exactly the
\* pending marker (two spaces, hourglass, space, step text) with no line
\* break; one that fails to resolve at any stage logs nothing.
C7_StepStarted ==
    [][ last'.kind = "testStepStarted"
        => (/\ << last'.caseId, last'.stepId >> \in ResolvableSteps
               => emitted' = << PendingMarker(TextOfStep(<< last'.caseId, last'.stepId >>)) >>
            /\ << last'.caseId, last'.stepId >> \in UnresolvableSteps
               => emitted' = << >>) ]_vars

C7_Witness ==
    /\ last.kind = "testStepStarted"
    /\ LastRef = <<"B", "1">>
    /\ emitted = << << "  ", "U+23F3", " ", "I should see an error" >> >>
    /\ terminal.text = << "  ", "U+23F3", " ", "I should see an error" >>
    /\ terminal.col = 4

----------------------------------------------------------------------------
(* C8 *)

\* What writing toks removes from the screen: the cells an EL clears and the
\* cells a printed token overwrites.
RECURSIVE erasedBy(_, _)
erasedBy(term, toks) ==
    IF toks = << >> THEN << >>
    ELSE LET tok == Head(toks)
             gone == IF tok = "<ESC[K>"
                     THEN SubSeq(term.text, term.col + 1, Len(term.text))
                     ELSE IF tok \notin {"<LF>", "<CR>"} /\ term.col < Len(term.text)
                     THEN << term.text[term.col + 1] >>
                     ELSE << >>
         IN  gone \o erasedBy(writeToken(term, tok), Tail(toks))

\* The in-place overwrite at one step of the run: a final step line erases
\* exactly the pending marker of its own step, which is all the current line
\* holds; and any other output starts on an empty line, so that no pending
\* marker is left behind or shares its line.
InPlaceOverwrite ==
    emitted' # << >> =>
        IF last'.kind = "testStepFinished"
        THEN /\ terminal.text = PendingMarker(TextOfStep(<< last'.caseId, last'.stepId >>))
             /\ erasedBy(terminal, Flatten(emitted')) = terminal.text
             /\ terminal'.text = << >>
        ELSE terminal.text = << >>

\* C8 as stated: for every run that satisfies the ordering invariant (per
\* case CaseStarted, then its steps, then CaseFinished; RunStarted first,
\* RunFinished last) every StepFinished line erases exactly the pending marker
\* of its own step and nothing is left unterminated.
C8_OverwriteInEveryOrderedRun ==
    [][ InPlaceOverwrite ]_vars

\* C8 amended: the same for runs in which the cases do not overlap (each
\* case finishes before the next one starts, as with parallel: 1).
C8_OverwriteInSerialRun ==
    [][ ~overlapped' => InPlaceOverwrite ]_vars

C8_Witness ==
    /\ last.kind = "testStepFinished"
    /\ LastRef = <<"B", "1">>
    /\ last.status = "FAILED"
    /\ ~overlapped
    /\ progress["A"].phase = "done"
    /\ emitted = << << "<CR>", "<ESC[K>", "  ", "U+274C", " ", "I should see an error", "<LF>" >> >>
    /\ terminal.text = << >>
    /\ totalSteps = 2

----------------------------------------------------------------------------
(* C9 *)

CountLine(total, noun, passed, failed, skipped) ==
    Num(total) \o << noun >> \o Num(passed) \o << " passed" >>
    \o (IF failed > 0 THEN << ", " >> \o Num(failed) \o << " failed" >> ELSE << >>)
    \o (IF skipped > 0 THEN << ", " >> \o Num(skipped) \o << " skipped" >> ELSE << >>)
    \o << ")", "<LF>" >>

RECURSIVE Occurrences(_, _)
Occurrences(toks, tok) ==
    IF toks = << >> THEN 0
    ELSE (IF Head(toks) = tok THEN 1 ELSE 0) + Occurrences(Tail(toks), tok)

----------------------------------------------------------------------------
(* C10 *)

GrowsByAtMostOne(before, after) == after = before \/ after = before + 1

CountsGrowByAtMostOne ==
    /\ GrowsByAtMostOne(passedCount, passedCount')
    /\ GrowsByAtMostOne(failedCount, failedCount')
    /\ GrowsByAtMostOne(skippedCount, skippedCount')
    /\ GrowsByAtMostOne(totalSteps, totalSteps')
    /\ GrowsByAtMostOne(scenariosPassed, scenariosPassed')
    /\ GrowsByAtMostOne(scenariosFailed, scenariosFailed')
    /\ GrowsByAtMostOne(scenariosSkipped, scenariosSkipped')
    /\ GrowsByAtMostOne(totalScenarios, totalScenarios')

\* C10 as stated: no envelope resets or decreases any of the nine fields, and
\* each of the nine changes by at most 1 per envelope.
C10_NineFieldsGrowByAtMostOne ==
    [][ CountsGrowByAtMostOne /\ GrowsByAtMostOne(startTime, startTime') ]_vars

\* C10 amended: each of the eight count fields never decreases and grows by
\* at most 1 per envelope, also across a repeated RunStarted and after a
\* RunFinished; the ninth field, startTime, is changed by RunStarted only,
\* which overwrites it with the clock reading.
C10_CountsNeverReset ==
    [][ /\ CountsGrowByAtMostOne
        /\ last'.kind = "testRunStarted" => startTime' = now'
        /\ last'.kind # "testRunStarted" => startTime' = startTime ]_vars

C10_Witness ==
    /\ last.kind = "testRunStarted"
    /\ nEvents = 3
    /\ totalSteps = 1 /\ passedCount = 1
    /\ startTime = 1257

----------------------------------------------------------------------------
(* C11 *)

\* C11: deleting from an event sequence every CaseStarted, StepStarted,
\* StepFinished and CaseFinished whose identifiers do not resolve changes
\* neither the output nor the counters: after every envelope, a formatter fed
\* the sequence without those envelopes holds the same nine fields, has
\* logged the same for the envelope (nothing for a deleted one) and shows the
\* same terminal line as the formatter fed the whole sequence.
C11_MissesDoNotAffectTheRest ==
    /\ shadow = Self
    /\ shadowEmitted = emitted
    /\ shadowTerminal = terminal

C11_Witness ==
    /\ last.kind = "testCaseFinished"
    /\ last.caseId = "X"
    /\ nEvents = 3
    /\ totalSteps = 1 /\ skippedCount = 1
    /\ terminal.text = << "  ", "U+23F3", " ", "I should see an error" >>
    /\ shadow = Self

----------------------------------------------------------------------------
(* C12 *)

\* C12: in every reachable state totalSteps is the number of final step
\* lines (CR, clear, icon, text, line break) logged so far, and each of
\* passedCount, failedCount, skippedCount is the number of those lines that
\* carry the icon of its status.
C12_CountingMatchesDisplay ==
    /\ totalSteps = finalLines["U+2705"] + finalLines["U+274C"]
                    + finalLines["U+2298"] + finalLines["U+26A0"]
    /\ passedCount = finalLines["U+2705"]
    /\ failedCount = finalLines["U+274C"]
    /\ skippedCount = finalLines["U+2298"]

C12_Witness ==
    /\ last.kind = "testStepFinished"
    /\ << last.caseId, last.stepId >> \in UnresolvableSteps
    /\ nEvents = 3
    /\ totalSteps = 2
    /\ finalLines["U+274C"] = 1 /\ finalLines["U+26A0"] = 1

----------------------------------------------------------------------------
(* Part 2: the result summarizer (unnamed/part_001) *)

\* A report has at most this many features, elements and steps together.
MaxDocSize == 5

FeatureNames == {"Login", "Checkout"}
ElementTypes == {"scenario", "background"}
StepStatuses == {"passed", "failed", "skipped", "undefined"}

\* step.result.duration is optional: << >> when missing, << d >> when present
\* (nanoseconds).
Durations == { << >>, << 250000000 >> }

Steps == { [ result |-> [ status |-> st, duration |-> d ] ] : st \in StepStatuses, d \in Durations }

\* const results: TestResults = { totalScenarios: 0, ... }
NewResults ==
    [ totalScenarios |-> 0, passedScenarios |-> 0, failedScenarios |-> 0,
      skippedScenarios |-> 0, totalSteps |-> 0, passedSteps |-> 0, failedSteps |-> 0,
      skippedSteps |-> 0, duration |-> 0, features |-> << >> ]

\* const featureSummary: FeatureSummary = { name: feature.name, scenarios: 0, ... }
NewFeatureSummary(name) ==
    [ name |-> name, scenarios |-> 0, passed |-> 0, failed |-> 0, skipped |-> 0 ]

\* step.result.duration ?? 0
orZero(duration) == IF duration = << >> THEN 0 ELSE duration[1]

\* Mutant of processStep: a step is counted in the total only when its status
\* is one of the three named ones.
processStep_TotalInBranches(step, res) ==
    LET r == [ res EXCEPT !.duration = @ + orZero(step.result.duration) ]
        status == step.result.status
    IN  IF status = "passed" THEN [ r EXCEPT !.passedSteps = @ + 1, !.totalSteps = @ + 1 ]
        ELSE IF status = "failed" THEN [ r EXCEPT !.failedSteps = @ + 1, !.totalSteps = @ + 1 ]
        ELSE IF status = "skipped" THEN [ r EXCEPT !.skippedSteps = @ + 1, !.totalSteps = @ + 1 ]
        ELSE r

\* processStep
processStep(step, res) ==
    LET r == [ res EXCEPT !.totalSteps = @ + 1,
                          !.duration = @ + orZero(step.result.duration) ]
        status == step.result.status
    IN  IF status = "passed" THEN [ r EXCEPT !.passedSteps = @ + 1 ]
        ELSE IF status = "failed" THEN [ r EXCEPT !.failedSteps = @ + 1 ]
        ELSE IF status = "skipped" THEN [ r EXCEPT !.skippedSteps = @ + 1 ]
        ELSE r

\* steps.some(s => s.result.status === status)
some(steps, status) == \E i \in 1..Len(steps) : steps[i].result.status = status

\* Mutant of determineScenarioStatus: skipped is looked for before failed.
determineScenarioStatus_SkippedFirst(steps) ==
    IF some(steps, "skipped") THEN "skipped"
    ELSE IF some(steps, "failed") THEN "failed"
    ELSE "passed"

\* Mutant of determineScenarioStatus: a scenario passes only when all its
\* steps passed.
determineScenarioStatus_AllPassed(steps) ==
    IF some(steps, "failed") THEN "failed"
    ELSE IF some(steps, "skipped") THEN "skipped"
    ELSE IF \A i \in 1..Len(steps) : steps[i].result.status = "passed" THEN "passed"
    ELSE "undefined"

\* determineScenarioStatus
determineScenarioStatus(steps) ==
    IF some(steps, "failed") THEN "failed"
    ELSE IF some(steps, "skipped") THEN "skipped"
    ELSE "passed"

\* Mutant of updateScenarioCounts: a skipped scenario is counted in the
\* feature summary only.
updateScenarioCounts_SkippedInFeatureOnly(status, featureSummary, res) ==
    IF status = "passed"
    THEN [ featureSummary |-> [ featureSummary EXCEPT !.passed = @ + 1 ],
           results |-> [ res EXCEPT !.passedScenarios = @ + 1 ] ]
    ELSE IF status = "failed"
    THEN [ featureSummary |-> [ featureSummary EXCEPT !.failed = @ + 1 ],
           results |-> [ res EXCEPT !.failedScenarios = @ + 1 ] ]
    ELSE [ featureSummary |-> [ featureSummary EXCEPT !.skipped = @ + 1 ],
           results |-> res ]

\* updateScenarioCounts: the feature summary and the results after the update.
updateScenarioCounts(status, featureSummary, res) ==
    IF status = "passed"
    THEN [ featureSummary |-> [ featureSummary EXCEPT !.passed = @ + 1 ],
           results |-> [ res EXCEPT !.passedScenarios = @ + 1 ] ]
    ELSE IF status = "failed"
    THEN [ featureSummary |-> [ featureSummary EXCEPT !.failed = @ + 1 ],
           results |-> [ res EXCEPT !.failedScenarios = @ + 1 ] ]
    ELSE [ featureSummary |-> [ featureSummary EXCEPT !.skipped = @ + 1 ],
           results |-> [ res EXCEPT !.skippedScenarios = @ + 1 ] ]

\* for (const step of scenario.steps) processStep(step, results)
RECURSIVE forSteps(_, _)
forSteps(steps, res) ==
    IF steps = << >> THEN res
    ELSE forSteps(Tail(steps), processStep(Head(steps), res))

\* Mutant of forScenarios: every element is counted, whatever its type.
RECURSIVE forScenarios_AnyType(_, _, _)
forScenarios_AnyType(elements, featureSummary, res) ==
    IF elements = << >> THEN [ featureSummary |-> featureSummary, results |-> res ]
    ELSE LET scenario == Head(elements)
             counted == [ featureSummary EXCEPT !.scenarios = @ + 1 ]
             r == forSteps(scenario.steps, [ res EXCEPT !.totalScenarios = @ + 1 ])
             u == updateScenarioCounts(determineScenarioStatus(scenario.steps), counted, r)
         IN  forScenarios_AnyType(Tail(elements), u.featureSummary, u.results)

\* for (const scenario of feature.elements) { ... }
RECURSIVE forScenarios(_, _, _)
forScenarios(elements, featureSummary, res) ==
    IF elements = << >> THEN [ featureSummary |-> featureSummary, results |-> res ]
    ELSE LET scenario == Head(elements)
         IN  IF scenario.type # "scenario"
             THEN forScenarios(Tail(elements), featureSummary, res)
             ELSE LET counted == [ featureSummary EXCEPT !.scenarios = @ + 1 ]
                      r == forSteps(scenario.steps, [ res EXCEPT !.totalScenarios = @ + 1 ])
                      u == updateScenarioCounts(determineScenarioStatus(scenario.steps),
                                                counted, r)
                  IN  forScenarios(Tail(elements), u.featureSummary, u.results)

\* Mutant of forFeatures: a feature whose name is already in the breakdown is
\* added to that entry.
RECURSIVE forFeatures_MergedByName(_, _)
forFeatures_MergedByName(features, res) ==
    IF features = << >> THEN res
    ELSE LET feature == Head(features)
             u == forScenarios(feature.elements, NewFeatureSummary(feature.name), res)
             f == u.featureSummary
             same == { i \in 1..Len(res.features) : res.features[i].name = f.name }
             r == IF f.scenarios = 0 THEN u.results
                  ELSE IF same = { }
                  THEN [ u.results EXCEPT !.features = Append(@, f) ]
                  ELSE LET i == CHOOSE i \in same : TRUE
                       IN  [ u.results EXCEPT
                               !.features[i].scenarios = @ + f.scenarios,
                               !.features[i].passed = @ + f.passed,
                               !.features[i].failed = @ + f.failed,
                               !.features[i].skipped = @ + f.skipped ]
         IN  forFeatures_MergedByName(Tail(features), r)

\* for (const feature of features) { ... }
RECURSIVE forFeatures(_, _)
forFeatures(features, res) ==
    IF features = << >> THEN res
    ELSE LET feature == Head(features)
             u == forScenarios(feature.elements, NewFeatureSummary(feature.name), res)
             r == IF u.featureSummary.scenarios > 0
                  THEN [ u.results EXCEPT !.features = Append(@, u.featureSummary) ]
                  ELSE u.results
         IN  forFeatures(Tail(features), r)

\* parseTestResults, once the report file has been read and parsed.
parseTestResults(features) == forFeatures(features, NewResults)

----------------------------------------------------------------------------
(* Rendering: pass rate and duration *)

\* A number of nanoseconds as the record [s, n] of its whole seconds and the
\* nanoseconds below one second.
NanosPerSecond == 1000000000

Nanos(ns) == [ s |-> ns \div NanosPerSecond, n |-> ns % NanosPerSecond ]

\* Sum of two durations.
Plus(a, b) ==
    [ s |-> a.s + b.s + ((a.n + b.n) \div NanosPerSecond),
      n |-> (a.n + b.n) % NanosPerSecond ]

\* ((passed / total) * 100).toFixed(1): the tenths nearest to the quotient,
\* then the integer part, the point and one digit.
toFixed1(num, den) ==
    LET tenths == (2 * num * 10 + den) \div (2 * den)
    IN  Num(tenths \div 10) \o << ".", DigitChars[(tenths % 10) + 1] >>

\* Mutant of passRate: the rate is cut after the first decimal.
passRate_Truncated(res) ==
    IF res.totalScenarios > 0
    THEN LET tenths == (res.passedScenarios * 1000) \div res.totalScenarios
         IN  Num(tenths \div 10) \o << ".", DigitChars[(tenths % 10) + 1] >>
    ELSE << "0", ".", "0" >>

\* const passRate = results.totalScenarios > 0 ? (...).toFixed(1) : '0.0'
passRate(res) ==
    IF res.totalScenarios > 0
    THEN toFixed1(res.passedScenarios * 100, res.totalScenarios)
    ELSE << "0", ".", "0" >>

\* seconds.toFixed(2) of a duration: the hundredths nearest to the double
\* nanoseconds / 1e9.  A duration midway between two hundredths is rounded
\* up when the quotient is a double (an odd multiple of 1/8 of a second);
\* otherwise the double lies to one side of the midpoint, and tieUp says to
\* which.
toFixed2(d, tieUp) ==
    LET unit == NanosPerSecond \div 100
        down == d.s * 100 + (d.n \div unit)
        rest == d.n % unit
        exact == d.n % (NanosPerSecond \div 8) = 0
        up == \/ 2 * rest > unit
              \/ 2 * rest = unit /\ (exact \/ tieUp)
        hundredths == IF up THEN down + 1 ELSE down
    IN  Num(hundredths \div 100)
        \o << ".", DigitChars[((hundredths % 100) \div 10) + 1],
              DigitChars[(hundredths % 10) + 1] >>

\* Mutant of formatDuration: the minutes form starts above 60 seconds.
formatDuration_MinutesAboveSixty(d, tieUp) ==
    IF d.s < 60 \/ (d.s = 60 /\ d.n = 0) THEN toFixed2(d, tieUp) \o << "s" >>
    ELSE Num(d.s \div 60) \o << "m", " " >> \o Num(d.s % 60) \o << "s" >>

\* formatDuration
formatDuration(d, tieUp) ==
    IF d.s < 60 THEN toFixed2(d, tieUp) \o << "s" >>
    ELSE Num(d.s \div 60) \o << "m", " " >> \o Num(d.s % 60) \o << "s" >>

\* The link every artifact row points to.
RunLink == "(https://github.com/${GITHUB_REPOSITORY}/actions/runs/${GITHUB_RUN_ID})"

\* const status = results.failedScenarios === 0 ? ... (the badge of the title)
statusIcon(res) == IF res.failedScenarios = 0 THEN "U+2705" ELSE "U+274C"

\* const statusText = results.failedScenarios === 0 ? ...
statusText(res) == IF res.failedScenarios = 0 THEN "**PASSED**" ELSE "**FAILED**"

\* | <label> | <count> |
countRow(label, count) == << << "| ", label, " | " >> \o Num(count) \o << " |" >> >>

\* The summary table; rate and duration are the rendered pass rate and duration.
summaryTable(res, rate, duration) ==
    << << "### U+1F4CA Summary" >>, << >>,
       << "| Metric | Count |" >>,
       << "|--------|-------|" >> >>
    \o countRow("**Total Scenarios**", res.totalScenarios)
    \o countRow("U+2705 Passed", res.passedScenarios)
    \o countRow("U+274C Failed", res.failedScenarios)
    \o countRow("U+23ED Skipped", res.skippedScenarios)
    \o << << "| ", "**Pass Rate**", " | " >> \o rate \o << "% |" >> >>
    \o << << "| ", "**Duration**", " | " >> \o duration \o << " |" >> >>
    \o << << >> >>

\* Mutant of featureIcon: a feature with a skipped scenario gets the fail icon too.
featureIcon_AnyNotPassed(feature) ==
    IF feature.failed > 0 \/ feature.skipped > 0 THEN "U+274C" ELSE "U+2705"

\* const icon = feature.failed > 0 ? ...
featureIcon(feature) == IF feature.failed > 0 THEN "U+274C" ELSE "U+2705"

\* | <icon> <name> | <scenarios> | <passed> | <failed> | <skipped> |
featureRow(feature) ==
    << "| ", featureIcon(feature), " ", feature.name, " | " >>
    \o Num(feature.scenarios) \o << " | " >> \o Num(feature.passed) \o << " | " >>
    \o Num(feature.failed) \o << " | " >> \o Num(feature.skipped) \o << " |" >>

\* for (const feature of results.features) comment += ...
RECURSIVE featureRows(_)
featureRows(features) ==
    IF features = << >> THEN << >>
    ELSE << featureRow(Head(features)) >> \o featureRows(Tail(features))

\* if (results.features.length > 0) { ... }
featuresSection(res) ==
    IF Len(res.features) > 0
    THEN << << "### U+1F4DD Features" >>, << >>,
            << "| Feature | Scenarios | U+2705 Passed | U+274C Failed | U+23ED Skipped |" >>,
            << "|---------|-----------|----------|----------|----------|" >> >>
         \o featureRows(res.features)
         \o << << >> >>
    ELSE << >>

\* if (results.failedScenarios > 0) { ### Action Required ... }
actionRequired(res) ==
    IF res.failedScenarios > 0
    THEN << << "### U+1F50D Action Required" >>, << >>,
            Num(res.failedScenarios)
            \o << " scenario(s) failed. Please review the test results and fix the failing tests." >>,
            << >> >>
    ELSE << >>

\* The artifacts section; the screenshots and videos rows only with failures.
artifacts(res) ==
    << << "### U+1F4E6 Artifacts" >>, << >>,
       << "- [", "U+1F4C4 Full HTML Report", "]", RunLink >>,
       << "- [", "U+1F4CA Test Results JSON", "]", RunLink >> >>
    \o (IF res.failedScenarios > 0
        THEN << << "- [", "U+1F4F8 Screenshots", "]", RunLink,
                   " - open this run and download the \"Screenshots\" artifact from the Artifacts section (if available)" >>,
                << "- [", "U+1F3A5 Videos", "]", RunLink,
                   " - open this run and download the \"Videos\" artifact from the Artifacts section (if available)" >> >>
        ELSE << >>)

\* The lines of the comment, rate and duration being the rendered pass rate
\* and duration.
commentLines(res, rate, duration) ==
    << << "## ", statusIcon(res), " Test Results ", statusText(res) >>, << >> >>
    \o summaryTable(res, rate, duration)
    \o featuresSection(res)
    \o actionRequired(res)
    \o artifacts(res)
    \o << << >>, << "---" >>, << "*Generated by PICKL Test Automation* U+1F952" >> >>

\* The comment with its rendered pass rate and duration set apart.
Rendered(res, rate, duration) ==
    [ passRate |-> rate, duration |-> duration, lines |-> commentLines(res, rate, duration) ]

\* generateComment
generateComment(res, tieUp) ==
    Rendered(res, passRate(res), formatDuration(Nanos(res.duration), tieUp))

----------------------------------------------------------------------------
(* SpecSum: a report is written, then the comment is generated *)

RECURSIVE StepsIn(_)
StepsIn(elements) ==
    IF elements = << >> THEN 0
    ELSE Len(Head(elements).steps) + StepsIn(Tail(elements))

\* The number of features, elements and steps of a report.
RECURSIVE DocSize(_)
DocSize(features) ==
    IF features = << >> THEN 0
    ELSE 1 + Len(Head(features).elements) + StepsIn(Head(features).elements)
         + DocSize(Tail(features))

\* The reports an earlier run may have had.
EarlierReports ==
    { << >>,
      << [ name |-> "Login",
           elements |-> << [ type |-> "scenario",
                             steps |-> << [ result |-> [ status |-> "failed",
                                                         duration |-> << >> ] ] >> ] >> ] >> }

\* An earlier run left its comment in test-results/pr-comment.md.
EarlierComment ==
    \E earlier \in EarlierReports :
        /\ exitCode = << >>
        /\ ~reportExists
        /\ prComment = << >>
        /\ prComment' = << generateComment(parseTestResults(earlier), TRUE).lines >>
        /\ UNCHANGED << report, results, comment, reportExists, writes, exitCode, replaced,
                        fmtVars, durVars, cliVars, pageVars >>

\* The test run creates the report file, with no feature yet.
CreateReport ==
    /\ exitCode = << >>
    /\ ~reportExists
    /\ reportExists' = TRUE
    /\ UNCHANGED << report, results, comment, prComment, writes, exitCode, replaced,
                    fmtVars, durVars, cliVars, pageVars >>

\* The test run writes the report, feature by feature, in document order.
Writing ==
    /\ exitCode = << >>
    /\ reportExists
    /\ DocSize(report) < MaxDocSize
    /\ UNCHANGED << results, comment, reportExists, prComment, writes, exitCode, replaced,
                    fmtVars, durVars, cliVars, pageVars >>

WriteFeature ==
    \E name \in FeatureNames :
        /\ Writing
        /\ report' = Append(report, [ name |-> name, elements |-> << >> ])

WriteElement ==
    \E type \in ElementTypes :
        /\ Writing
        /\ report # << >>
        /\ report' = [ report EXCEPT ![Len(report)].elements =
                          Append(@, [ type |-> type, steps |-> << >> ]) ]

WriteStep ==
    \E step \in Steps :
        /\ Writing
        /\ report # << >>
        /\ report[Len(report)].elements # << >>
        /\ report' = [ report EXCEPT
                          ![Len(report)].elements[Len(report[Len(report)].elements)].steps =
                              Append(@, step) ]

\* The script ran to its end: what it computed, what pr-comment.md holds,
\* how many writeFile calls it made and its exit status.
Ended(res, rendered, file, written, status) ==
    /\ results' = res
    /\ comment' = rendered
    /\ prComment' = file
    /\ writes' = written
    /\ exitCode' = << status >>
    /\ replaced' = prComment
    /\ UNCHANGED << report, reportExists, fmtVars, durVars, cliVars, pageVars >>

\* The comment is written and the script ends.
Written(res, rendered) == Ended(<< res >>, << rendered >>, << rendered.lines >>, writes + 1, 0)

\* Mutant of generatePRComment: a missing report is read as a report without features.
generatePRComment_MissingIsEmpty ==
    \E tieUp \in BOOLEAN :
        /\ exitCode = << >>
        /\ Written(parseTestResults(report), generateComment(parseTestResults(report), tieUp))

\* Mutant of generatePRComment: the script exits with 1 when scenarios failed.
generatePRComment_ExitOnFailures ==
    \E tieUp \in BOOLEAN :
        /\ exitCode = << >>
        /\ IF ~reportExists
           THEN Ended(results, comment, prComment, writes, 1)
           ELSE LET res == parseTestResults(report)
                    rendered == generateComment(res, tieUp)
                IN  Ended(<< res >>, << rendered >>, << rendered.lines >>, writes + 1,
                          IF res.failedScenarios > 0 THEN 1 ELSE 0)

\* The script: generatePRComment (parseTestResults, generateComment,
\* writeFile), and the catch that exits with 1.
generatePRComment ==
    \E tieUp \in BOOLEAN :
        /\ exitCode = << >>
        /\ IF ~reportExists
           THEN Ended(results, comment, prComment, writes, 1)
           ELSE Written(parseTestResults(report),
                        generateComment(parseTestResults(report), tieUp))

NextSum ==
    \/ EarlierComment
    \/ CreateReport
    \/ WriteFeature
    \/ WriteElement
    \/ WriteStep
    \/ generatePRComment

SpecSum == Init /\ [][NextSum]_vars

----------------------------------------------------------------------------
(* SpecDuration: time elapses, then the duration is formatted *)

\* A duration is the sum of at most this many lapses.
MaxLapses == 4

\* The lapses of time.
Lapses ==
    { [ s |-> 0,  n |-> 1 ],
      [ s |-> 0,  n |-> 4999999 ],
      [ s |-> 0,  n |-> 5000000 ],
      [ s |-> 0,  n |-> 125000000 ],
      [ s |-> 14, n |-> 990000000 ],
      [ s |-> 15, n |-> 0 ],
      [ s |-> 45, n |-> 0 ],
      [ s |-> 80, n |-> 0 ] }

Elapse ==
    \E lapse \in Lapses :
        /\ formatted = << >>
        /\ lapses < MaxLapses
        /\ nanoseconds' = Plus(nanoseconds, lapse)
        /\ lapses' = lapses + 1
        /\ UNCHANGED << formatted, fmtVars, sumVars, cliVars, pageVars >>

FormatDuration ==
    \E tieUp \in BOOLEAN :
        /\ formatted = << >>
        /\ formatted' = formatDuration(nanoseconds, tieUp)
        /\ UNCHANGED << nanoseconds, lapses, fmtVars, sumVars, cliVars, pageVars >>

NextDuration ==
    \/ Elapse
    \/ FormatDuration

SpecDuration == Init /\ [][NextDuration]_vars

----------------------------------------------------------------------------
(* Vocabulary of the summarizer's properties *)

\* The elements of type 'scenario', as << feature index, element index >>.
CountableScenarios ==
    UNION { { << f, e >> : e \in { e \in 1..Len(report[f].elements) :
                                     report[f].elements[e].type = "scenario" } } :
            f \in 1..Len(report) }

\* The steps of those elements, as << feature, element, step index >>.
CountableSteps ==
    UNION { { << ref[1], ref[2], i >> :
                i \in 1..Len(report[ref[1]].elements[ref[2]].steps) } :
            ref \in CountableScenarios }

StepsAt(ref) == report[ref[1]].elements[ref[2]].steps
StepAt(ref) == report[ref[1]].elements[ref[2]].steps[ref[3]]

\* The statuses that occur among steps.
StatusesIn(steps) == { steps[i].result.status : i \in 1..Len(steps) }

NamedStatuses == {"passed", "failed", "skipped"}

IsNamed(step) == step.result.status \in NamedStatuses

Summary == results[1]

----------------------------------------------------------------------------
(* C13 *)

\* C13: the status derived for a scenario is failed if at least one of its
\* steps failed, otherwise skipped if at least one was skipped, otherwise
\* passed (so passed for no steps); removing the steps with an unrecognized
\* status leaves it the same; and the three scenario counts of the summary
\* are the numbers of scenarios of each derived status.
C13_WorstStatusRule ==
    results # << >> =>
        /\ \A ref \in CountableScenarios :
              LET steps == StepsAt(ref)
                  status == determineScenarioStatus(steps)
              IN  /\ "failed" \in StatusesIn(steps) => status = "failed"
                  /\ "failed" \notin StatusesIn(steps) /\ "skipped" \in StatusesIn(steps)
                        => status = "skipped"
                  /\ StatusesIn(steps) \cap {"failed", "skipped"} = { } => status = "passed"
                  /\ determineScenarioStatus(SelectSeq(steps, IsNamed)) = status
        /\ Summary.failedScenarios =
              Cardinality({ ref \in CountableScenarios : "failed" \in StatusesIn(StepsAt(ref)) })
        /\ Summary.skippedScenarios =
              Cardinality({ ref \in CountableScenarios :
                              /\ "failed" \notin StatusesIn(StepsAt(ref))
                              /\ "skipped" \in StatusesIn(StepsAt(ref)) })
        /\ Summary.passedScenarios =
              Cardinality({ ref \in CountableScenarios :
                              StatusesIn(StepsAt(ref)) \cap {"failed", "skipped"} = { } })

C13_Witness ==
    /\ results # << >>
    /\ Len(report) = 1 /\ Len(report[1].elements) = 1
    /\ report[1].elements[1].type = "scenario"
    /\ Len(report[1].elements[1].steps) = 3
    /\ report[1].elements[1].steps[1].result.status = "passed"
    /\ report[1].elements[1].steps[2].result.status = "failed"
    /\ report[1].elements[1].steps[3].result.status = "skipped"
    /\ Summary.failedScenarios = 1 /\ Summary.skippedScenarios = 0

----------------------------------------------------------------------------
(* C14 *)

\* The scenarios with a step of an unrecognized status and no failed or
\* skipped step.
UndefinedAtWorst ==
    { ref \in CountableScenarios :
        /\ StatusesIn(StepsAt(ref)) \cap {"failed", "skipped"} = { }
        /\ StatusesIn(StepsAt(ref)) \ NamedStatuses # { } }

\* C14 as stated: undefined outranks passed, so a scenario with an
\* unrecognized step status and no failed or skipped step is not counted in
\* the passed scenarios: those are the scenarios whose steps all passed.
C14_UndefinedOutranksPassed ==
    results # << >> =>
        Summary.passedScenarios =
            Cardinality({ ref \in CountableScenarios : StatusesIn(StepsAt(ref)) \subseteq {"passed"} })

\* C14, amended: the precedence is failed > skipped > passed; a scenario with
\* an unrecognized step status and no failed or skipped step is derived
\* passed and is counted in the passed scenarios, and in no other bucket.
C14_UndefinedCountsAsPassed ==
    results # << >> =>
        /\ \A ref \in UndefinedAtWorst : determineScenarioStatus(StepsAt(ref)) = "passed"
        /\ Summary.passedScenarios =
              Cardinality(UndefinedAtWorst)
              + Cardinality({ ref \in CountableScenarios :
                                StatusesIn(StepsAt(ref)) \subseteq {"passed"} })
        /\ Summary.passedScenarios + Summary.failedScenarios + Summary.skippedScenarios
              = Summary.totalScenarios

C14_Witness ==
    /\ results # << >>
    /\ Len(report) = 1 /\ Len(report[1].elements) = 1
    /\ << 1, 1 >> \in UndefinedAtWorst
    /\ StatusesIn(StepsAt(<< 1, 1 >>)) = {"passed", "undefined"}
    /\ Summary.passedScenarios = 1 /\ Summary.totalScenarios = 1

----------------------------------------------------------------------------
(* C15 *)

\* The countable steps with a given status.
StepsWith(status) == { ref \in CountableSteps : StepAt(ref).result.status = status }

\* The sum of the durations the steps of a set carry.
RECURSIVE DurationOf(_)
DurationOf(refs) ==
    IF refs = { } THEN 0
    ELSE LET ref == CHOOSE r \in refs : TRUE
             d == StepAt(ref).result.duration
         IN  (IF Len(d) = 1 THEN d[1] ELSE 0) + DurationOf(refs \ {ref})

\* C15: after a run the total step count is the number of steps of all
\* elements of type 'scenario'; the passed, failed and skipped step counts
\* are the numbers of those steps with exactly that status; a step of another
\* status adds to the total and to no bucket; the duration is the sum of the
\* steps' durations, a missing one counting as 0.
C15_StepAccounting ==
    results # << >> =>
        /\ Summary.totalSteps = Cardinality(CountableSteps)
        /\ Summary.passedSteps = Cardinality(StepsWith("passed"))
        /\ Summary.failedSteps = Cardinality(StepsWith("failed"))
        /\ Summary.skippedSteps = Cardinality(StepsWith("skipped"))
        /\ Summary.totalSteps - Summary.passedSteps - Summary.failedSteps - Summary.skippedSteps
              = Cardinality({ ref \in CountableSteps : ~IsNamed(StepAt(ref)) })
        /\ Summary.duration = DurationOf(CountableSteps)

C15_Witness ==
    /\ results # << >>
    /\ Len(report) = 1 /\ Len(report[1].elements) = 1
    /\ StepsAt(<< 1, 1 >>) =
          << [ result |-> [ status |-> "undefined", duration |-> << >> ] ],
             [ result |-> [ status |-> "passed", duration |-> << 250000000 >> ] ],
             [ result |-> [ status |-> "failed", duration |-> << 250000000 >> ] ] >>
    /\ report[1].elements[1].type = "scenario"
    /\ Summary.totalSteps = 3 /\ Summary.passedSteps = 1 /\ Summary.failedSteps = 1
    /\ Summary.skippedSteps = 0
    /\ Summary.duration = 500000000

----------------------------------------------------------------------------
(* C16 *)

IsScenario(element) == element.type = "scenario"

HasScenario(feature) == \E e \in 1..Len(feature.elements) : IsScenario(feature.elements[e])

\* A feature without its elements of another type.
RECURSIVE ScenariosOnly(_)
ScenariosOnly(features) ==
    IF features = << >> THEN << >>
    ELSE << [ Head(features) EXCEPT !.elements = SelectSeq(@, IsScenario) ] >>
         \o ScenariosOnly(Tail(features))

\* C16: the elements whose type is not 'scenario' contribute nothing: the
\* summary is the summary of the report without them and without the
\* features that hold no scenario; the scenario total is the number of
\* elements of type 'scenario', and the breakdown has no entry for a feature
\* without one.
C16_OnlyScenariosCount ==
    results # << >> =>
        /\ Summary = parseTestResults(SelectSeq(ScenariosOnly(report), HasScenario))
        /\ Summary.totalScenarios = Cardinality(CountableScenarios)
        /\ Len(Summary.features) = Cardinality({ f \in 1..Len(report) : HasScenario(report[f]) })
        /\ \A i \in 1..Len(Summary.features) : Summary.features[i].scenarios >= 1

C16_Witness ==
    /\ results # << >>
    /\ Len(report) = 2
    /\ Len(report[1].elements) = 1 /\ report[1].elements[1].type = "background"
    /\ Len(report[1].elements[1].steps) = 1
    /\ report[1].name = "Login" /\ report[2].name = "Checkout"
    /\ Len(report[2].elements) = 1 /\ report[2].elements[1].type = "scenario"
    /\ Summary.totalSteps = 0 /\ Summary.totalScenarios = 1 /\ Summary.duration = 0
    /\ Len(Summary.features) = 1 /\ Summary.features[1].name = "Checkout"

----------------------------------------------------------------------------
(* C17 *)

\* The scenarios of the feature at an index whose derived status is one of a set.
ScenariosIn(f, statuses) ==
    { ref \in CountableScenarios :
        ref[1] = f /\ determineScenarioStatus(StepsAt(ref)) \in statuses }

\* The indexes of the features with a scenario, in ascending order.
RECURSIVE Kept(_)
Kept(f) ==
    IF f > Len(report) THEN << >>
    ELSE (IF HasScenario(report[f]) THEN << f >> ELSE << >>) \o Kept(f + 1)

\* C17: the breakdown has one entry for each feature occurrence with at
\* least one scenario, in the order of the report; an entry carries the name
\* and the scenario counts of that occurrence alone, also when another
\* feature has the same name.
C17_BreakdownInInputOrder ==
    results # << >> =>
        /\ Len(Summary.features) = Len(Kept(1))
        /\ \A i \in 1..Len(Kept(1)) :
              LET f == Kept(1)[i]
              IN  Summary.features[i] =
                      [ name |-> report[f].name,
                        scenarios |-> Cardinality(ScenariosIn(f, NamedStatuses)),
                        passed |-> Cardinality(ScenariosIn(f, {"passed"})),
                        failed |-> Cardinality(ScenariosIn(f, {"failed"})),
                        skipped |-> Cardinality(ScenariosIn(f, {"skipped"})) ]

C17_Witness ==
    /\ results # << >>
    /\ Len(report) = 2
    /\ report[1].name = "Login" /\ report[2].name = "Login"
    /\ Summary.features =
          << [ name |-> "Login", scenarios |-> 1, passed |-> 0, failed |-> 1, skipped |-> 0 ],
             [ name |-> "Login", scenarios |-> 1, passed |-> 1, failed |-> 0, skipped |-> 0 ] >>

----------------------------------------------------------------------------
(* Reading rendered numbers back *)

IsDigit(tok) == \E d \in 0..9 : DigitChars[d + 1] = tok

DigitOf(tok) == CHOOSE d \in 0..9 : DigitChars[d + 1] = tok

AllDigits(toks) == toks # << >> /\ \A i \in 1..Len(toks) : IsDigit(toks[i])

\* The number a sequence of digits denotes.
RECURSIVE ValueOf(_)
ValueOf(toks) ==
    IF toks = << >> THEN 0
    ELSE 10 * ValueOf(SubSeq(toks, 1, Len(toks) - 1)) + DigitOf(toks[Len(toks)])

\* Digits, a point and k more digits.
IsDecimal(toks, k) ==
    /\ Len(toks) >= k + 2
    /\ toks[Len(toks) - k] = "."
    /\ AllDigits(SubSeq(toks, 1, Len(toks) - k - 1))
    /\ AllDigits(SubSeq(toks, Len(toks) - k + 1, Len(toks)))

\* The number of 10^-k units a decimal with k decimals denotes.
UnitsOf(toks, k) ==
    ValueOf(SubSeq(toks, 1, Len(toks) - k - 1) \o SubSeq(toks, Len(toks) - k + 1, Len(toks)))

\* The position of a token in a sequence, 0 when it does not occur.
IndexOf(toks, tok) ==
    IF \E i \in 1..Len(toks) : toks[i] = tok
    THEN CHOOSE i \in 1..Len(toks) : toks[i] = tok /\ \A j \in 1..(i - 1) : toks[j] # tok
    ELSE 0

----------------------------------------------------------------------------
(* C19 *)

\* C19: the rendered pass rate is a number with one decimal between 0.0 and
\* 100.0; with a scenario total above 0 it is the tenth of a percent nearest
\* to passed / total; with a total of 0 it is 0.0.
C19_PassRate ==
    comment # << >> =>
        LET rate == comment[1].passRate
            passed == Summary.passedScenarios
            total == Summary.totalScenarios
        IN  /\ IsDecimal(rate, 1)
            /\ UnitsOf(rate, 1) \in 0..1000
            /\ total = 0 => rate = << "0", ".", "0" >>
            /\ total > 0 =>
                  /\ 2 * (UnitsOf(rate, 1) * total - 1000 * passed) <= total
                  /\ 2 * (1000 * passed - UnitsOf(rate, 1) * total) <= total

C19_Witness ==
    /\ comment # << >>
    /\ Summary.passedScenarios = 2 /\ Summary.totalScenarios = 3
    /\ comment[1].passRate = << "6", "6", ".", "7" >>

----------------------------------------------------------------------------
(* C20 *)

\* The tokens before the last one.
Front(toks) == SubSeq(toks, 1, Len(toks) - 1)

\* C20: a duration below 60 seconds is rendered as seconds with two decimals
\* followed by 's', the hundredths being nearest to the duration; a duration
\* of 60 seconds or more is rendered as '<m>m <s>s' with s in 0..59 and
\* m * 60 + s the whole elapsed seconds.
C20_FormatDuration ==
    formatted # << >> =>
        IF nanoseconds.s < 60
        THEN /\ formatted[Len(formatted)] = "s"
             /\ IsDecimal(Front(formatted), 2)
             /\ LET over == UnitsOf(Front(formatted), 2) - 100 * nanoseconds.s
                    unit == NanosPerSecond \div 100
                IN  /\ over \in 0..100
                    /\ 2 * (over * unit - nanoseconds.n) <= unit
                    /\ 2 * (nanoseconds.n - over * unit) <= unit
        ELSE LET at == IndexOf(formatted, "m")
                 m == SubSeq(formatted, 1, at - 1)
                 sec == SubSeq(formatted, at + 2, Len(formatted) - 1)
             IN  /\ at > 1
                 /\ Len(formatted) >= at + 3
                 /\ formatted[at + 1] = " "
                 /\ formatted[Len(formatted)] = "s"
                 /\ AllDigits(m) /\ AllDigits(sec)
                 /\ ValueOf(sec) \in 0..59
                 /\ ValueOf(m) * 60 + ValueOf(sec) = nanoseconds.s

C20_Witness ==
    /\ nanoseconds = [ s |-> 125, n |-> 0 ]
    /\ formatted = << "2", "m", " ", "5", "s" >>

\* The example below one minute: 45_000_000_000 ns is rendered 45.00s.
C20_WitnessSeconds ==
    /\ nanoseconds = [ s |-> 45, n |-> 0 ]
    /\ formatted = << "4", "5", ".", "0", "0", "s" >>

----------------------------------------------------------------------------
(* C25 *)

\* C25: in every reachable state totalScenarios is at least the sum of the
\* three scenario buckets, and exceeds it by the number of resolved
\* testCaseFinished envelopes handled so far whose worst status is none of
\* passed, failed, skipped; the buckets sum to the total exactly when there
\* was none.
C25_ScenarioCountInvariant ==
    /\ totalScenarios >= scenariosPassed + scenariosFailed + scenariosSkipped
    /\ totalScenarios - (scenariosPassed + scenariosFailed + scenariosSkipped)
          = processed.case["OTHER"]
    /\ (totalScenarios = scenariosPassed + scenariosFailed + scenariosSkipped)
          <=> (processed.case["OTHER"] = 0)

C25_Witness ==
    /\ last.kind = "testCaseFinished" /\ last.caseId = "B" /\ last.worst = "UNDEFINED"
    /\ totalScenarios = 3 /\ scenariosPassed = 1 /\ scenariosFailed = 0 /\ scenariosSkipped = 1
    /\ processed.case["OTHER"] = 1

----------------------------------------------------------------------------
(* C26 *)

\* C26: a testCaseFinished envelope whose case identifier does not resolve
\* changes none of the nine fields (the scenario total and the three buckets
\* included), logs nothing and leaves the terminal as it is.
C26_UnresolvedCaseFinishedIsNoOp ==
    [][ (/\ last'.kind = "testCaseFinished"
         /\ last'.caseId \notin KnownCases)
        => (/\ UNCHANGED fields
            /\ emitted' = << >>
            /\ terminal' = terminal) ]_vars

C26_Witness ==
    /\ last.kind = "testCaseFinished" /\ last.caseId = "X"
    /\ nEvents = 3
    /\ totalScenarios = 2 /\ scenariosFailed = 1 /\ scenariosPassed = 0 /\ scenariosSkipped = 0
    /\ emitted = << >>

----------------------------------------------------------------------------
(* C27 *)

countFields == << stepCounters, scenarioCounters >>

\* C27: testRunStarted changes only startTime and logs nothing;
\* testCaseStarted and testStepStarted change no field; testStepFinished
\* changes no scenario counter (and not startTime); testCaseFinished changes
\* no step counter (and not startTime) and logs nothing; testRunFinished
\* changes no field; any other envelope changes no field and logs nothing.
C27_FrameConditions ==
    [][ /\ last'.kind = "testRunStarted" => UNCHANGED countFields /\ emitted' = << >>
        /\ last'.kind \in {"testCaseStarted", "testStepStarted"} => UNCHANGED fields
        /\ last'.kind = "testStepFinished" => UNCHANGED << scenarioCounters, startTime >>
        /\ last'.kind = "testCaseFinished" =>
              UNCHANGED << stepCounters, startTime >> /\ emitted' = << >>
        /\ last'.kind = "testRunFinished" => UNCHANGED fields
        /\ last'.kind = "other" => UNCHANGED fields /\ emitted' = << >> /\ terminal' = terminal
      ]_vars

C27_Witness ==
    /\ last.kind = "testRunStarted"
    /\ nEvents = 3
    /\ startTime = 1250
    /\ totalSteps = 1 /\ failedCount = 1
    /\ totalScenarios = 1 /\ scenariosSkipped = 1
    /\ emitted = << >>

----------------------------------------------------------------------------
(* C30 *)

\* The eight count fields as the numbers of resolved envelopes handled.
CountsFollowProcessed ==
    /\ passedCount = processed.step["PASSED"]
    /\ failedCount = processed.step["FAILED"]
    /\ skippedCount = processed.step["SKIPPED"]
    /\ totalSteps = processed.step["PASSED"] + processed.step["FAILED"]
                    + processed.step["SKIPPED"] + processed.step["OTHER"]
    /\ scenariosPassed = processed.case["PASSED"]
    /\ scenariosFailed = processed.case["FAILED"]
    /\ scenariosSkipped = processed.case["SKIPPED"]
    /\ totalScenarios = processed.case["PASSED"] + processed.case["FAILED"]
                        + processed.case["SKIPPED"] + processed.case["OTHER"]

\* C30 as stated: each of the nine fields depends only on how many resolved
\* testStepFinished and testCaseFinished envelopes of each status were
\* handled, so an envelope that adds none leaves all nine as they are.
C30_NineFieldsFollowProcessed ==
    [][ /\ CountsFollowProcessed'
        /\ processed' = processed => UNCHANGED fields ]_vars

\* C30, amended: the eight count fields depend only on how many resolved
\* testStepFinished and testCaseFinished envelopes of each status were
\* handled, in whatever order and with whatever other envelopes between
\* them; startTime is the clock reading at the last testRunStarted.
C30_CountsFollowProcessed ==
    /\ CountsFollowProcessed
    /\ startTime = runStartedAt

C30_Witness ==
    /\ nEvents = 3
    /\ last.kind = "testStepFinished" /\ last.status = "PASSED"
    /\ processed.case["FAILED"] = 1
    /\ processed.step["OTHER"] = 1 /\ processed.step["PASSED"] = 1
    /\ totalSteps = 2 /\ passedCount = 1 /\ scenariosFailed = 1

----------------------------------------------------------------------------
(* C21 *)

HasLine(lines, line) == \E i \in 1..Len(lines) : lines[i] = line

\* An artifact row with a label.
HasArtifact(lines, label) ==
    \E i \in 1..Len(lines) : Len(lines[i]) >= 2 /\ lines[i][1] = "- [" /\ lines[i][2] = label

\* A row of the features table: | <icon> <name> | ...
IsFeatureRow(line) ==
    Len(line) >= 5 /\ line[1] = "| " /\ line[3] = " " /\ line[5] = " | "

\* C21: the badge of the title is the pass badge exactly when failedScenarios
\* is 0 (also with 0 scenarios) and the fail badge otherwise; the Action
\* Required section is present exactly when failedScenarios > 0; so are the
\* Screenshots and the Videos artifact rows; and the row of each feature
\* starts with the fail icon exactly when the feature's failed count is above 0.
C21_ConditionalSections ==
    comment # << >> =>
        LET lines == comment[1].lines
            rows == SelectSeq(lines, IsFeatureRow)
        IN  /\ Len(lines[1]) = 4 /\ lines[1][1] = "## " /\ lines[1][3] = " Test Results "
            /\ lines[1][2] \in {"U+2705", "U+274C"}
            /\ lines[1][2] = "U+2705" <=> Summary.failedScenarios = 0
            /\ HasLine(lines, << "### U+1F50D Action Required" >>) <=> Summary.failedScenarios > 0
            /\ HasArtifact(lines, "U+1F4F8 Screenshots") <=> Summary.failedScenarios > 0
            /\ HasArtifact(lines, "U+1F3A5 Videos") <=> Summary.failedScenarios > 0
            /\ HasArtifact(lines, "U+1F4C4 Full HTML Report")
            /\ Len(rows) = Len(Summary.features)
            /\ \A i \in 1..Len(rows) :
                  /\ rows[i][4] = Summary.features[i].name
                  /\ rows[i][2] \in {"U+2705", "U+274C"}
                  /\ rows[i][2] = "U+274C" <=> Summary.features[i].failed > 0

C21_Witness ==
    /\ comment # << >>
    /\ Len(Summary.features) = 2
    /\ Summary.features[1].failed = 0 /\ Summary.features[1].passed = 1
    /\ Summary.features[2].failed = 1
    /\ Summary.failedScenarios = 1
    /\ comment[1].lines[1] = << "## ", "U+274C", " Test Results ", "**FAILED**" >>
    /\ HasLine(comment[1].lines, << "### U+1F50D Action Required" >>)

----------------------------------------------------------------------------
(* C22 *)

\* The step in which the script runs and ends.
ScriptRuns == exitCode = << >> /\ exitCode' # << >>

\* C22: when the report does not exist the script computes no summary and
\* renders no comment, leaves test-results/pr-comment.md as it is (absent, or
\* with its earlier content), makes no writeFile call and ends with exit
\* status 1; once ended it does nothing more.
C22_MissingReport ==
    [][ /\ (ScriptRuns /\ ~reportExists) =>
              /\ results' = << >> /\ comment' = << >>
              /\ prComment' = prComment
              /\ writes' = 0
              /\ exitCode' = << 1 >>
        /\ exitCode # << >> => UNCHANGED sumVars ]_vars

C22_Witness ==
    /\ exitCode = << 1 >>
    /\ ~reportExists
    /\ results = << >> /\ writes = 0
    /\ prComment # << >> /\ prComment = replaced
    /\ HasLine(prComment[1], << "### U+1F50D Action Required" >>)

----------------------------------------------------------------------------
(* C28 *)

\* The sum of a field over the entries of the breakdown.
RECURSIVE SumOf(_, _)
SumOf(entries, field) ==
    IF entries = << >> THEN 0 ELSE Head(entries)[field] + SumOf(Tail(entries), field)

\* C28: the scenario total of the summary is the sum of its three buckets;
\* every entry of the breakdown has scenarios = passed + failed + skipped and
\* at least one scenario; and the entries' scenarios, passed, failed and
\* skipped add up to the four global scenario counts.
C28_ScenarioCountsConsistent ==
    results # << >> =>
        /\ Summary.totalScenarios
              = Summary.passedScenarios + Summary.failedScenarios + Summary.skippedScenarios
        /\ \A i \in 1..Len(Summary.features) :
              LET entry == Summary.features[i]
              IN  /\ entry.scenarios = entry.passed + entry.failed + entry.skipped
                  /\ entry.scenarios >= 1
        /\ SumOf(Summary.features, "scenarios") = Summary.totalScenarios
        /\ SumOf(Summary.features, "passed") = Summary.passedScenarios
        /\ SumOf(Summary.features, "failed") = Summary.failedScenarios
        /\ SumOf(Summary.features, "skipped") = Summary.skippedScenarios

C28_Witness ==
    /\ results # << >>
    /\ Len(report) = 3 /\ Len(report[2].elements) = 0
    /\ Len(Summary.features) = 2
    /\ Summary.totalScenarios = 2
    /\ Summary.passedScenarios = 2

----------------------------------------------------------------------------
(* C29 *)

\* C29: when the report exists the script makes exactly one writeFile call,
\* after which test-results/pr-comment.md holds the comment rendered from the
\* report and nothing of its earlier content, and ends with exit status 0,
\* whatever the number of failed scenarios.
C29_FailuresAreNotAnError ==
    [][ (ScriptRuns /\ reportExists) =>
            /\ writes = 0 /\ writes' = 1
            /\ exitCode' = << 0 >>
            /\ prComment' \in
                  { << generateComment(parseTestResults(report), t).lines >> : t \in BOOLEAN }
            /\ comment' # << >> /\ prComment' = << comment'[1].lines >>
      ]_vars

C29_Witness ==
    /\ exitCode = << 0 >>
    /\ writes = 1
    /\ Summary.failedScenarios = 2
    /\ replaced # << >> /\ replaced # prComment
    /\ HasLine(replaced[1], << "### U+1F50D Action Required" >>)
    /\ prComment = << comment[1].lines >>

----------------------------------------------------------------------------
(* Part 3: the test runner script (scripts/run-test.ts) *)

\* The command line has at most this many arguments.
MaxArgs == 3

\* An argument is a sequence of tokens: the empty string is << >>, and an
\* argument that starts with two dashes has "--" as its first token.
TagsFlag == << "--", "tags" >>

Arguments ==
    { TagsFlag,
      << "--", "dry-run" >>,
      << >>,
      << "@smoke" >>,
      << "@regression" >>,
      << "test/features/login.feature" >> }

\* The values process.env.TAGS may have when it is set.
TagsValues == { << >>, << "@regression" >> }

\* let featurePath = 'test/features/'
DefaultFeaturePath == << "test/features/" >>

\* arg.startsWith('--')
startsWithDashes(arg) == arg # << >> /\ arg[1] = "--"

\* Mutant of processArguments: the argument after --tags is not skipped.
RECURSIVE processArguments_NoSkip(_, _, _)
processArguments_NoSkip(args, i, acc) ==
    IF i > Len(args) THEN acc
    ELSE IF args[i] = TagsFlag /\ i + 1 <= Len(args) /\ args[i + 1] # << >>
    THEN processArguments_NoSkip(args, i + 1, [ acc EXCEPT !.cliTags = args[i + 1] ])
    ELSE IF args[i] # << >> /\ ~startsWithDashes(args[i])
    THEN processArguments_NoSkip(args, i + 1, [ acc EXCEPT !.featurePath = args[i] ])
    ELSE processArguments_NoSkip(args, i + 1, acc)

\* for (let i = 0; i < args.length; i++) { ... }, from the i-th argument on
\* (counted from 1), acc holding featurePath and cliTags.
RECURSIVE processArguments(_, _, _)
processArguments(args, i, acc) ==
    IF i > Len(args) THEN acc
    ELSE IF args[i] = TagsFlag /\ i + 1 <= Len(args) /\ args[i + 1] # << >>
    THEN processArguments(args, i + 2, [ acc EXCEPT !.cliTags = args[i + 1] ])
    ELSE IF args[i] # << >> /\ ~startsWithDashes(args[i])
    THEN processArguments(args, i + 1, [ acc EXCEPT !.featurePath = args[i] ])
    ELSE processArguments(args, i + 1, acc)

\* Mutant of tagsOption: TAGS is looked at first.
tagsOption_EnvironmentFirst(cliTags, tags) ==
    IF tags # << >> /\ tags[1] # << >> THEN << "--tags \"" >> \o tags[1] \o << "\"" >>
    ELSE IF cliTags # << >> THEN << "--tags \"" >> \o cliTags \o << "\"" >>
    ELSE << >>

\* const tagsOption = cliTags ? ... : process.env.TAGS ? ... : ''
tagsOption(cliTags, tags) ==
    IF cliTags # << >> THEN << "--tags \"" >> \o cliTags \o << "\"" >>
    ELSE IF tags # << >> /\ tags[1] # << >> THEN << "--tags \"" >> \o tags[1] \o << "\"" >>
    ELSE << >>

\* What precedes the tags option in the command.
CommandHead ==
    "cross-env NODE_OPTIONS=\"--import tsx --import dotenv/config\" cucumber-js --config cucumber.js --import 'test/support/**/*.ts' --import 'test/steps/**/*.ts' --format ./test/support/verbose-formatter.ts --format json:test-results/cucumber-report.json "

\* const command = `... ${tagsOption} ${featurePath}`
commandLine(parsed, tags) ==
    << CommandHead >> \o tagsOption(parsed.cliTags, tags) \o << " " >> \o parsed.featurePath

\* The outcomes of the child process: no error, an error with a code, an
\* error without one.
ChildErrors == { << >>, << [ code |-> << 2 >> ] >>, << [ code |-> << >> ] >> }

\* The shell passes one more argument.
PassArgument ==
    \E arg \in Arguments :
        /\ runTestPc = "args"
        /\ Len(argv) < MaxArgs
        /\ argv' = Append(argv, arg)
        /\ UNCHANGED << envTags, command, runTestPc, runTestExit, fmtVars, sumVars, durVars, pageVars >>

\* The environment (or .env, through dotenv/config) sets TAGS.
SetTags ==
    \E value \in TagsValues :
        /\ runTestPc = "args"
        /\ envTags = << >>
        /\ envTags' = << value >>
        /\ UNCHANGED << argv, command, runTestPc, runTestExit, fmtVars, sumVars, durVars, pageVars >>

\* The script: the arguments are processed and the command is launched.
RunTest ==
    /\ runTestPc = "args"
    /\ command' = << commandLine(processArguments(argv, 1,
                         [ featurePath |-> DefaultFeaturePath, cliTags |-> << >> ]), envTags) >>
    /\ runTestPc' = "launched"
    /\ UNCHANGED << argv, envTags, runTestExit, fmtVars, sumVars, durVars, pageVars >>

\* The callback of exec: process.exit(error.code ?? 1) on an error.
ChildEnds ==
    \E error \in ChildErrors :
        /\ runTestPc = "launched"
        /\ runTestPc' = "done"
        /\ runTestExit' = IF error = << >> THEN << >>
                          ELSE IF error[1].code # << >> THEN error[1].code ELSE << 1 >>
        /\ UNCHANGED << argv, envTags, command, fmtVars, sumVars, durVars, pageVars >>

NextRunTest ==
    \/ PassArgument
    \/ SetTags
    \/ RunTest
    \/ ChildEnds

SpecRunTest == Init /\ [][NextRunTest]_vars

----------------------------------------------------------------------------
(* C23 *)

\* The i-th argument is a --tags option: it is --tags, a non-empty argument
\* follows it, and it is not itself the value of a --tags option.
RECURSIVE IsTagsOption(_)
IsTagsOption(i) ==
    /\ argv[i] = TagsFlag
    /\ i < Len(argv) /\ argv[i + 1] # << >>
    /\ ~(i > 1 /\ IsTagsOption(i - 1))

TagsOptions == { i \in 1..Len(argv) : IsTagsOption(i) }

\* The arguments that are the value of a --tags option.
TagsValuePositions == { i + 1 : i \in TagsOptions }

\* The arguments that name a feature path.
PathPositions ==
    { i \in 1..Len(argv) : /\ argv[i] # << >>
                           /\ argv[i][1] # "--"
                           /\ i \notin TagsValuePositions }

Last(positions) == CHOOSE i \in positions : \A j \in positions : j <= i

\* C23: the launched command carries --tags with the value of the (last)
\* --tags option of the command line when there is one, whatever TAGS is;
\* otherwise with TAGS when it is set and not empty; otherwise no --tags
\* option; and its feature path is the last argument that is neither an
\* option nor the value of a --tags option, or test/features/.
C23_TagSelection ==
    command # << >> =>
        LET tags == IF TagsOptions # { }
                    THEN << "--tags \"" >> \o argv[Last(TagsOptions) + 1] \o << "\"" >>
                    ELSE IF envTags # << >> /\ envTags[1] # << >>
                    THEN << "--tags \"" >> \o envTags[1] \o << "\"" >>
                    ELSE << >>
            path == IF PathPositions # { } THEN argv[Last(PathPositions)]
                    ELSE << "test/features/" >>
        IN  command[1] = << CommandHead >> \o tags \o << " " >> \o path

C23_Witness ==
    /\ command # << >>
    /\ argv = << << "--", "tags" >>, << "@smoke" >>, << "test/features/login.feature" >> >>
    /\ envTags = << << "@regression" >> >>
    /\ command[1] = << CommandHead, "--tags \"", "@smoke", "\"", " ",
                       "test/features/login.feature" >>

----------------------------------------------------------------------------
(* Part 4: the step helpers getPage and getPageObject *)

\* Page objects are constructed at most this many times.
MaxObjects == 2

\* The pages the browser may create, and the page-object classes of the steps.
Pages == { "page1", "page2" }
PageClasses == { "LoginPage", "CheckboxesPage", "ExamplePage" }

NotInitialized ==
    "Page is not initialized. Ensure the browser is launched in Before hook."

\* What a call does: it returns a value or throws an error, and it leaves
\* the list of constructor calls made so far.
Returns(value, made) == [ returned |-> << value >>, thrown |-> << >>, constructed |-> made ]
Throws(error, made) == [ returned |-> << >>, thrown |-> << error >>, constructed |-> made ]

\* new PageClass(page)
PageObject(PageClass, page) == [ class |-> PageClass, page |-> page ]

\* Mutant of getPage: the page is returned as it is, set or not.
getPage_Unchecked(w, made) ==
    Returns(w.page, made)

\* getPage(world)
getPage(w, made) ==
    IF w.page = << >> THEN Throws(NotInitialized, made)
    ELSE Returns(w.page[1], made)

\* return new PageClass(page), page being what getPage did
construct(PageClass, page) ==
    IF page.thrown # << >> THEN page
    ELSE Returns(PageObject(PageClass, page.returned[1]),
                 Append(page.constructed, PageObject(PageClass, page.returned[1])))

\* Mutant of getPageObject: the page object is constructed from world.page
\* before the page is checked.
getPageObject_ConstructFirst(w, PageClass, made) ==
    construct(PageClass, getPage(w, Append(made, PageObject(PageClass, w.page))))

\* getPageObject(world, PageClass)
getPageObject(w, PageClass, made) ==
    construct(PageClass, getPage(w, made))

\* Cucumber creates the World of the next scenario: no page yet.
NewWorld ==
    /\ world' = [ page |-> << >> ]
    /\ UNCHANGED << constructed, called, outcome, fmtVars, sumVars, durVars, cliVars >>

\* The Before hook: this.page = await browser.newPage()
BeforeHook ==
    \E page \in Pages :
        /\ world' = [ world EXCEPT !.page = << page >> ]
        /\ UNCHANGED << constructed, called, outcome, fmtVars, sumVars, durVars, cliVars >>

\* The call has ended with result.
Called(fn, PageClass, result) ==
    /\ called' = << [ fn |-> fn, PageClass |-> PageClass, world |-> world,
                      before |-> constructed ] >>
    /\ outcome' = << [ returned |-> result.returned, thrown |-> result.thrown ] >>
    /\ constructed' = result.constructed
    /\ UNCHANGED << world, fmtVars, sumVars, durVars, cliVars >>

\* A step calls getPage(this).
GetPage ==
    Called("getPage", << >>, getPage(world, constructed))

\* A step calls getPageObject(this, PageClass).
GetPageObject ==
    \E PageClass \in PageClasses :
        /\ Len(constructed) < MaxObjects
        /\ Called("getPageObject", << PageClass >>, getPageObject(world, PageClass, constructed))

NextPage ==
    \/ NewWorld
    \/ BeforeHook
    \/ GetPage
    \/ GetPageObject

SpecPage == Init /\ [][NextPage]_vars

----------------------------------------------------------------------------
(* C24 *)

\* C24: a call of getPage returns the World's page when it is set and throws
\* the not-initialized error when it is not, constructing nothing; a call of
\* getPageObject with the page set calls the constructor of the class once,
\* with that page, and returns the object; with no page it throws the same
\* error and no constructor is called.
C24_PageHelpers ==
    called # << >> =>
        IF called[1].world.page = << >>
        THEN /\ outcome[1].thrown = << NotInitialized >>
             /\ outcome[1].returned = << >>
             /\ constructed = called[1].before
        ELSE /\ outcome[1].thrown = << >>
             /\ IF called[1].fn = "getPage"
                THEN /\ outcome[1].returned = called[1].world.page
                     /\ constructed = called[1].before
                ELSE /\ outcome[1].returned =
                            << [ class |-> called[1].PageClass[1],
                                 page |-> called[1].world.page[1] ] >>
                     /\ constructed = called[1].before \o outcome[1].returned

C24_Witness ==
    /\ called # << >>
    /\ called[1].fn = "getPageObject"
    /\ called[1].world.page = << >>
    /\ Len(called[1].before) = 1
    /\ outcome[1].thrown = << NotInitialized >>
    /\ Len(constructed) = 1

C24_WitnessPageSet ==
    /\ called # << >>
    /\ called[1].fn = "getPageObject"
    /\ called[1].world.page = << "page2" >>
    /\ constructed = << [ class |-> "LoginPage", page |-> "page1" ],
                        [ class |-> "CheckboxesPage", page |-> "page2" ] >>
    /\ outcome[1].returned = << [ class |-> "CheckboxesPage", page |-> "page2" ] >>

====
